---- MODULE Spec2Model ----
(***************************************************************************)
(* Transcript generation: speaker_resolver.py, assemblyai_diarization.py,  *)
(* rewrite_transcript_entities.py and fetch_committee_members.py           *)
(*                                                                         *)
(* Eight components are modelled, each with its own specification:         *)
(*   SpecResolver    resolve_speakers_via_llm and _coalesce_response_text  *)
(*   SpecMerge       merge_known_speakers, one loop iteration per step     *)
(*   SpecLoader      the three roster loaders, one line or call per step   *)
(*   SpecTranscript  read_transcript_head, parse_utterances and            *)
(*                   summarize_observed_speakers, one iteration per step   *)
(*   SpecPipeline    resolve_speakers_from_files, one statement per step   *)
(*   SpecDiarize     the turns of diarize_audio_file and the lines written *)
(*   SpecRewrite     load_speaker_mapping and rewrite_transcript           *)
(*   SpecFetch       fetch_committee_members, one source per step          *)
(*                                                                         *)
(* Text handed to json.loads is a sequence of JSON tokens; json_loads is a *)
(* recursive-descent parser over that sequence.  Python values are tagged  *)
(* records: [t |-> "null"], [t |-> "num", n |-> 0], [t |-> "str", s |-> s],*)
(* [t |-> "arr", a |-> <<...>>], [t |-> "obj", o |-> [key |-> value]].     *)
(***************************************************************************)
EXTENDS Integers, Sequences, FiniteSets, TLC

VARIABLES
    \* ---- resolve_speakers_via_llm
    r_pc,          \* position in resolve_speakers_via_llm
    credential,    \* whether OPENAI_API_KEY is configured in the environment
    service_up,    \* whether the inference service answers this run's request
    requests,      \* number of client.responses.create calls issued
    resp,          \* the response object returned by the service
    content,       \* text extracted by _coalesce_response_text
    r_result,      \* the mapping returned (a function label -> entry)
    r_exc,         \* the exception that left the function, "" when none
    \* ---- merge_known_speakers
    m_pc,          \* "loop" while iterating, "done" after the return
    sources,       \* the argument tuple *sources
    m_pos,         \* records consumed so far by "for lst in sources: for d in lst"
    merged,        \* dict key -> record
    merged_order,  \* insertion order of the keys of merged
    name_keyed,    \* dict normalized name -> key
    m_result,      \* list(merged.values())
    held,          \* the dict each input record holds now, by position in the input
    merged_obj,    \* dict key -> the object merged[key] is: 0 for a dict the merge
                   \* created, i for the i-th input record itself
    \* ---- roster loaders
    l_pc,          \* position in the loader
    loader,        \* which loader runs: "jsonl", "json" or "committee"
    file,          \* the source file: [exists |-> FALSE] or its content
    l_pos,         \* index of the next line of the file (jsonl)
    l_result,      \* the list being built / returned
    l_exc,         \* the exception that left the loader, "" when none
    \* ---- read_transcript_head, parse_utterances, summarize_observed_speakers
    t_pc,          \* position in the three transcript functions
    transcript,    \* the transcript file: absent, or its lines
    max_lines,     \* the limit N of read_transcript_head
    max_utterances_per_speaker,  \* the cap K of summarize_observed_speakers
    t_pos,         \* elements consumed so far by the running for loop
    head_lines,    \* lines: the list read_transcript_head builds and returns
    utterances,    \* the list parse_utterances builds and returns
    last_label,    \* last_label of parse_utterances
    idx,           \* idx of parse_utterances
    by_label,      \* dict label -> list of utterances
    label_order,   \* insertion order of the keys of by_label
    summary,       \* dict label -> summary entry
    t_exc,         \* the exception that left read_transcript_head, "" when none
    \* ---- resolve_speakers_from_files
    p_pc,          \* position in resolve_speakers_from_files
    p_args,        \* the arguments of the call
    p_env,         \* the environment: credential configured, service answering
    calls,         \* the calls made so far, in order
    p_head_lines,  \* head_lines
    p_utterances,  \* utterances
    p_summary,     \* summary
    known,         \* known
    members,       \* members
    p_requests,    \* number of client.responses.create calls issued
    p_mapping,     \* mapping, the value returned
    p_exc,         \* the exception that left the function, "" when none
    \* ---- diarize_audio_file and the output of assemblyai_diarization.py
    d_pc,          \* position in diarize_audio_file and the script's main block
    aai_transcript,\* the transcript object returned by the transcription service
    d_pos,         \* elements consumed so far by the running for loop
    current,       \* current_speaker, current_text, current_start, current_end
    turns,         \* the list of SpeakerTurn built and returned
    out_lines,     \* lines of the main block
    output_text,   \* the transcript file as written
    \* ---- load_speaker_mapping and rewrite_transcript
    w_pc,          \* position in main of rewrite_transcript_entities.py
    w_args,        \* the files and options of the run
    label_to_name, \* the dict returned by load_speaker_mapping
    fin,           \* the lines the input file object yields
    w_pos,         \* lines consumed so far by "for line in fin"
    fout,          \* the characters written to the output file
    w_exc,         \* the exception that left load_speaker_mapping, "" when none
    \* ---- fetch_committee_members
    f_pc,          \* position in fetch_committee_members
    f_sources,     \* what each of the three remote sources answers in this run
    f_calls,       \* the sources queried so far, in order
    f_result,      \* the list returned
    f_exc          \* the exception that left the function, "" when none

vars == << r_pc, credential, service_up, requests, resp, content, r_result, r_exc,
           m_pc, sources, m_pos, merged, merged_order, name_keyed, m_result, held,
           merged_obj,
           l_pc, loader, file, l_pos, l_result, l_exc,
           t_pc, transcript, max_lines, max_utterances_per_speaker, t_pos, head_lines,
           utterances, last_label, idx, by_label, label_order, summary, t_exc,
           p_pc, p_args, p_env, calls, p_head_lines, p_utterances, p_summary, known,
           members, p_requests, p_mapping, p_exc,
           d_pc, aai_transcript, d_pos, current, turns, out_lines, output_text,
           w_pc, w_args, label_to_name, fin, w_pos, fout, w_exc,
           f_pc, f_sources, f_calls, f_result, f_exc >>

r_vars == << r_pc, credential, service_up, requests, resp, content, r_result, r_exc >>
m_vars == << m_pc, sources, m_pos, merged, merged_order, name_keyed, m_result, held,
            merged_obj >>
l_vars == << l_pc, loader, file, l_pos, l_result, l_exc >>
t_vars == << t_pc, transcript, max_lines, max_utterances_per_speaker, t_pos, head_lines,
            utterances, last_label, idx, by_label, label_order, summary, t_exc >>
p_vars == << p_pc, p_args, p_env, calls, p_head_lines, p_utterances, p_summary, known,
            members, p_requests, p_mapping, p_exc >>
d_vars == << d_pc, aai_transcript, d_pos, current, turns, out_lines, output_text >>
w_vars == << w_pc, w_args, label_to_name, fin, w_pos, fout, w_exc >>
f_vars == << f_pc, f_sources, f_calls, f_result, f_exc >>

(***************************************************************************)
(* Python values                                                           *)
(***************************************************************************)
JNull == [t |-> "null"]
JNum(n) == [t |-> "num", n |-> n]
JStr(s) == [t |-> "str", s |-> s]
JArr(a) == [t |-> "arr", a |-> a]
JObj(o) == [t |-> "obj", o |-> o]

EmptyDict == << >>

\* bool(v): None, 0, "", [] and {} are falsy
Truthy(v) ==
    CASE v.t = "null" -> FALSE
      [] v.t = "num"  -> v.n # 0
      [] v.t = "str"  -> v.s # ""
      [] v.t = "arr"  -> Len(v.a) > 0
      [] v.t = "obj"  -> DOMAIN v.o # {}

\* isinstance(v, dict)
IsDict(v) == v.t = "obj"

\* d.get(k) on a dict d (the function under an "obj" value)
dict_get(d, k) == IF k \in DOMAIN d THEN d[k] ELSE JNull

(***************************************************************************)
(* json.loads over a token sequence                                        *)
(***************************************************************************)
\* string literal tokens and the strings they denote
StringLiterals ==
    [ tok \in { "\"\"", "\"x\"", "\"mapping\"", "\"other\"", "\"SPEAKER_A\"",
                "\"name\"", "\"type\"", "\"witness\"", "\"member\"",
                "\"person\"", "\"metadata\"", "\"HSAG\"" } |->
        CASE tok = "\"\""          -> ""
          [] tok = "\"x\""         -> "x"
          [] tok = "\"mapping\""   -> "mapping"
          [] tok = "\"other\""     -> "other"
          [] tok = "\"SPEAKER_A\"" -> "SPEAKER_A"
          [] tok = "\"name\""      -> "name"
          [] tok = "\"type\""      -> "type"
          [] tok = "\"witness\""   -> "witness"
          [] tok = "\"member\""    -> "member"
          [] tok = "\"person\""    -> "person"
          [] tok = "\"metadata\""  -> "metadata"
          [] tok = "\"HSAG\""      -> "HSAG" ]

NumberLiterals == [ tok \in {"0", "1"} |-> IF tok = "0" THEN 0 ELSE 1 ]

ParseFail == [ok |-> FALSE, val |-> JNull, next |-> 0]
ParseOk(v, n) == [ok |-> TRUE, val |-> v, next |-> n]

RECURSIVE parse_value(_, _), parse_members(_, _, _), parse_elements(_, _, _)

\* one JSON value starting at toks[i]
parse_value(toks, i) ==
    IF i > Len(toks) THEN ParseFail
    ELSE LET tok == toks[i] IN
         CASE tok = "null" -> ParseOk(JNull, i + 1)
           [] tok \in DOMAIN NumberLiterals -> ParseOk(JNum(NumberLiterals[tok]), i + 1)
           [] tok \in DOMAIN StringLiterals -> ParseOk(JStr(StringLiterals[tok]), i + 1)
           [] tok = "[" ->
                IF i + 1 <= Len(toks) /\ toks[i + 1] = "]"
                THEN ParseOk(JArr(<< >>), i + 2)
                ELSE parse_elements(toks, i + 1, << >>)
           [] tok = "{" ->
                IF i + 1 <= Len(toks) /\ toks[i + 1] = "}"
                THEN ParseOk(JObj(EmptyDict), i + 2)
                ELSE parse_members(toks, i + 1, EmptyDict)
           [] OTHER -> ParseFail

\* value ("," value)* "]" with the values so far in acc
parse_elements(toks, i, acc) ==
    LET v == parse_value(toks, i) IN
    IF ~v.ok \/ v.next > Len(toks) THEN ParseFail
    ELSE CASE toks[v.next] = "]" -> ParseOk(JArr(Append(acc, v.val)), v.next + 1)
           [] toks[v.next] = "," -> parse_elements(toks, v.next + 1, Append(acc, v.val))
           [] OTHER -> ParseFail

\* string ":" value ("," string ":" value)* "}"; a repeated key keeps the last value
parse_members(toks, i, acc) ==
    IF i + 1 > Len(toks) \/ toks[i] \notin DOMAIN StringLiterals \/ toks[i + 1] # ":"
    THEN ParseFail
    ELSE LET key == StringLiterals[toks[i]]
             v   == parse_value(toks, i + 2)
             new == (key :> v.val) @@ acc
         IN IF ~v.ok \/ v.next > Len(toks) THEN ParseFail
            ELSE CASE toks[v.next] = "}" -> ParseOk(JObj(new), v.next + 1)
                   [] toks[v.next] = "," -> parse_members(toks, v.next + 1, new)
                   [] OTHER -> ParseFail

\* json.loads(text): ok = FALSE stands for json.JSONDecodeError
json_loads(toks) ==
    LET r == parse_value(toks, 1) IN
    IF r.ok /\ r.next = Len(toks) + 1
    THEN [ok |-> TRUE, val |-> r.val]
    ELSE [ok |-> FALSE, val |-> JNull]

(***************************************************************************)
(* Inference responses                                                     *)
(***************************************************************************)
\* how many trailing tokens a response text may have lost
MaxDrop == 2

ScalarTexts == { <<"null">>, <<"0">>, <<"1">>, <<"\"\"">>, <<"\"x\"">> }
ArrayTexts == { <<"[", "]">>, <<"[", "1", "]">> }
EntryTexts == { <<"1">>, <<"{", "\"name\"", ":", "\"x\"", "}">> }
LabelObjectTexts ==
    { <<"{", "}">> } \cup { <<"{", "\"SPEAKER_A\"", ":">> \o e \o <<"}">> : e \in EntryTexts }

\* the texts a "mapping" key may carry
MappingValueTexts == ScalarTexts \cup ArrayTexts \cup LabelObjectTexts

\* well-formed JSON documents
DocumentTexts ==
    ScalarTexts \cup ArrayTexts
      \cup { <<"{", "}">>, <<"{", "\"other\"", ":", "1", "}">> }
      \cup { <<"{", "\"mapping\"", ":">> \o m \o <<"}">> : m \in MappingValueTexts }
      \cup { <<"{", "\"other\"", ":", "1", ",", "\"mapping\"", ":">> \o m \o <<"}">> :
                m \in LabelObjectTexts }

DropLast(toks, k) == SubSeq(toks, 1, IF Len(toks) > k THEN Len(toks) - k ELSE 0)

\* what the service may send back as text: documents, documents cut short,
\* documents followed by a stray token, and plain prose
ResponseTexts ==
    { DropLast(d, k) : d \in DocumentTexts, k \in 0..MaxDrop }
      \cup { d \o <<g>> : d \in DocumentTexts, g \in {"}", "not-json"} }
      \cup { <<"not-json">>, <<"not-json", "{", "}">> }

\* resp.output_text: a str, or anything else (missing attribute, None)
StrAttr(toks) == [is_str |-> TRUE, text |-> toks]
NotStrAttr == [is_str |-> FALSE, text |-> << >>]
\* resp.output[0].content[0].text: None, an object without .value, or one with it
TextNone == [present |-> FALSE, has_value |-> FALSE, value |-> << >>]
TextNoValue == [present |-> TRUE, has_value |-> FALSE, value |-> << >>]
TextValue(toks) == [present |-> TRUE, has_value |-> TRUE, value |-> toks]

ResponseShape(ot, out) == [output_text |-> ot, output |-> out]

\* the response objects client.responses.create may return
Responses ==
    { ResponseShape(StrAttr(x), << >>) : x \in ResponseTexts }
      \cup { ResponseShape(NotStrAttr, << [content |-> << [text |-> TextValue(x)] >>] >>) :
                x \in ResponseTexts }
      \cup { ResponseShape(NotStrAttr, << >>),
             ResponseShape(NotStrAttr, << [content |-> << >>] >>),
             ResponseShape(NotStrAttr, << [content |-> << [text |-> TextNone] >>] >>),
             ResponseShape(NotStrAttr, << [content |-> << [text |-> TextNoValue] >>] >>) }

NoResponse == ResponseShape(NotStrAttr, << >>)

(***************************************************************************)
(* _coalesce_response_text                                                 *)
(***************************************************************************)
coalesce_response_text(r) ==
    IF r.output_text.is_str THEN r.output_text.text
    ELSE IF Len(r.output) > 0
            /\ Len(r.output[1].content) > 0
            /\ r.output[1].content[1].text.present
            /\ r.output[1].content[1].text.has_value
         THEN r.output[1].content[1].text.value
         ELSE << >>

(***************************************************************************)
(* resolve_speakers_via_llm                                                *)
(***************************************************************************)
Returned(m) == [kind |-> "return", mapping |-> m, exc |-> ""]
Raised(e) == [kind |-> "raise", mapping |-> EmptyDict, exc |-> e]

\* lines 335-344 with JSONDecodeError left uncaught
parse_mapping_uncaught(text) ==
    LET p == json_loads(text) IN
    IF ~p.ok THEN Raised("JSONDecodeError")
    ELSE IF ~IsDict(p.val) THEN Raised("AttributeError")
    ELSE LET got == dict_get(p.val.o, "mapping")
             mapping == IF Truthy(got) THEN got ELSE JObj(EmptyDict)
         IN IF IsDict(mapping) THEN Returned(mapping.o) ELSE Returned(EmptyDict)

\* lines 335-344: json.loads, parsed.get("mapping") or {}, the isinstance test,
\* and the fallback; only json.JSONDecodeError is caught
parse_mapping(text) ==
    LET p == json_loads(text) IN
    IF ~p.ok THEN Returned(EmptyDict)
    ELSE IF ~IsDict(p.val) THEN Raised("AttributeError")
    ELSE LET got == dict_get(p.val.o, "mapping")
             mapping == IF Truthy(got) THEN got ELSE JObj(EmptyDict)
         IN IF IsDict(mapping) THEN Returned(mapping.o) ELSE Returned(EmptyDict)

\* line 320: client = _openai_client(); OpenAI() raises without a credential
ConstructClient ==
    /\ r_pc = "start"
    /\ IF credential
       THEN r_pc' = "client" /\ r_exc' = r_exc
       ELSE r_pc' = "raised" /\ r_exc' = "OpenAIError"
    /\ UNCHANGED << credential, service_up, requests, resp, content, r_result >>
    /\ UNCHANGED << m_vars, l_vars, t_vars, p_vars, d_vars, w_vars, f_vars >>

\* lines 325-332: the call returns a response object
CreateReturns ==
    /\ r_pc = "client"
    /\ service_up
    /\ \E r \in Responses : resp' = r
    /\ requests' = requests + 1
    /\ r_pc' = "requested"
    /\ UNCHANGED << credential, service_up, content, r_result, r_exc >>
    /\ UNCHANGED << m_vars, l_vars, t_vars, p_vars, d_vars, w_vars, f_vars >>

\* lines 325-332: the call raises (network or service failure); nothing catches it
CreateRaises ==
    /\ r_pc = "client"
    /\ ~service_up
    /\ requests' = requests + 1
    /\ r_pc' = "raised"
    /\ r_exc' = "APIError"
    /\ UNCHANGED << credential, service_up, resp, content, r_result >>
    /\ UNCHANGED << m_vars, l_vars, t_vars, p_vars, d_vars, w_vars, f_vars >>

\* line 334: content = _coalesce_response_text(resp)
Coalesce ==
    /\ r_pc = "requested"
    /\ content' = coalesce_response_text(resp)
    /\ r_pc' = "extracted"
    /\ UNCHANGED << credential, service_up, requests, resp, r_result, r_exc >>
    /\ UNCHANGED << m_vars, l_vars, t_vars, p_vars, d_vars, w_vars, f_vars >>

\* lines 335-344 with the request issued once more after an empty mapping
ParseResponse_retrying ==
    /\ r_pc = "extracted"
    /\ LET out == parse_mapping(content) IN
         IF out.kind = "return" /\ out.mapping = EmptyDict /\ requests < 2
         THEN r_pc' = "client" /\ UNCHANGED << r_result, r_exc >>
         ELSE /\ r_pc' = IF out.kind = "return" THEN "returned" ELSE "raised"
              /\ r_result' = out.mapping
              /\ r_exc' = out.exc
    /\ UNCHANGED << credential, service_up, requests, resp, content >>
    /\ UNCHANGED << m_vars, l_vars, t_vars, p_vars, d_vars, w_vars, f_vars >>

\* lines 335-344
ParseResponse ==
    /\ r_pc = "extracted"
    /\ LET out == parse_mapping(content) IN
         /\ r_pc' = IF out.kind = "return" THEN "returned" ELSE "raised"
         /\ r_result' = out.mapping
         /\ r_exc' = out.exc
    /\ UNCHANGED << credential, service_up, requests, resp, content >>
    /\ UNCHANGED << m_vars, l_vars, t_vars, p_vars, d_vars, w_vars, f_vars >>

ResolverIdle ==
    /\ r_pc = "off" /\ credential = FALSE /\ service_up = FALSE /\ requests = 0 /\ resp = NoResponse
    /\ content = << >> /\ r_result = EmptyDict /\ r_exc = ""
MergeIdle ==
    /\ m_pc = "off" /\ sources = << >> /\ m_pos = 0 /\ merged = EmptyDict
    /\ merged_order = << >> /\ name_keyed = EmptyDict /\ m_result = << >>
    /\ held = << >> /\ merged_obj = EmptyDict
LoaderIdle ==
    /\ l_pc = "off" /\ loader = "" /\ file = [exists |-> FALSE, lines |-> << >>]
    /\ l_pos = 0 /\ l_result = << >> /\ l_exc = ""
TranscriptIdle ==
    /\ t_pc = "off" /\ transcript = [exists |-> FALSE, lines |-> << >>, final_newline |-> FALSE]
    /\ max_lines = 0 /\ max_utterances_per_speaker = 0 /\ t_pos = 0 /\ head_lines = << >>
    /\ utterances = << >> /\ last_label = JNull /\ idx = 0 /\ by_label = EmptyDict
    /\ label_order = << >> /\ summary = EmptyDict /\ t_exc = ""
PipelineIdle ==
    /\ p_pc = "off"
    /\ p_args = [transcript |-> [exists |-> FALSE, lines |-> << >>, final_newline |-> FALSE],
                 max_lines |-> 0, max_utterances_per_speaker |-> 0,
                 speakers_format |-> "", committee_membership_path |-> FALSE]
    /\ p_env = [credential |-> FALSE, service_up |-> FALSE]
    /\ calls = << >> /\ p_head_lines = << >> /\ p_utterances = << >> /\ p_summary = EmptyDict
    /\ known = << >> /\ members = << >> /\ p_requests = 0 /\ p_mapping = EmptyDict /\ p_exc = ""
DiarizeIdle ==
    /\ d_pc = "off" /\ aai_transcript = [utterances |-> << >>, words |-> << >>] /\ d_pos = 0
    /\ current = [current_speaker |-> JNull, current_text |-> << >>,
                  current_start |-> JNull, current_end |-> JNull]
    /\ turns = << >> /\ out_lines = << >>
    /\ output_text = [exists |-> FALSE, lines |-> << >>, final_newline |-> FALSE]
RewriteIdle ==
    /\ w_pc = "off"
    /\ w_args = [transcript |-> << >>, mapping |-> JNull, witnesses |-> {},
                 committee_members |-> {}, annotate_role |-> FALSE, linesep |-> << >>,
                 in_place |-> FALSE]
    /\ label_to_name = EmptyDict /\ fin = << >> /\ w_pos = 0 /\ fout = << >> /\ w_exc = ""
NoSource == [raises |-> TRUE, status |-> 0, data |-> JNull]
FetchIdle ==
    /\ f_pc = "off"
    /\ f_sources = [unitedstates |-> NoSource, members |-> NoSource, item |-> NoSource]
    /\ f_calls = << >> /\ f_result = << >> /\ f_exc = ""

InitResolver ==
    /\ r_pc = "start"
    /\ credential \in BOOLEAN
    /\ service_up \in BOOLEAN
    /\ requests = 0
    /\ resp = NoResponse
    /\ content = << >>
    /\ r_result = EmptyDict
    /\ r_exc = ""
    /\ MergeIdle /\ LoaderIdle /\ TranscriptIdle /\ PipelineIdle
    /\ DiarizeIdle /\ RewriteIdle /\ FetchIdle

NextResolver ==
    \/ ConstructClient
    \/ CreateReturns
    \/ CreateRaises
    \/ Coalesce
    \/ ParseResponse

SpecResolver == InitResolver /\ [][NextResolver]_vars

(***************************************************************************)
(* Properties of resolve_speakers_via_llm                                  *)
(***************************************************************************)
ResolverDone == r_pc \in {"returned", "raised"}

\* the call was issued and the service failed it
CreateFailed == ResolverDone /\ credential /\ ~service_up /\ requests = 1

\* the call was issued, a response came back and its text was parsed
ResponseParsed == ResolverDone /\ credential /\ service_up /\ requests = 1

ReturnedEmptyMapping == r_pc = "returned" /\ r_result = EmptyDict /\ r_exc = ""

\* the text is JSON without a well-formed mapping object: the top-level value is
\* no object, or its "mapping" is missing, null or not an object
LacksMappingObject(text) ==
    LET p == json_loads(text) IN
      /\ p.ok
      /\ \/ p.val.t # "obj"
         \/ "mapping" \notin DOMAIN p.val.o
         \/ p.val.o["mapping"].t # "obj"

\* C1: whenever the inference call itself fails with an exception, the resolver
\* returns the empty mapping and does not raise.
C1_CreateFailureYieldsEmptyMapping == CreateFailed => ReturnedEmptyMapping

\* C2: whenever the response text is valid JSON without a well-formed mapping
\* object, the resolver returns the empty mapping and does not raise.
C2_NoMappingObjectYieldsEmptyMapping ==
    (ResponseParsed /\ LacksMappingObject(content)) => ReturnedEmptyMapping

\* C3: whenever the extracted text is not parseable as JSON (the empty string
\* of a response without text included), the resolver returns the empty mapping
\* and does not raise.
C3_NonJsonYieldsEmptyMapping ==
    (ResponseParsed /\ ~json_loads(content).ok) => ReturnedEmptyMapping

\* the response body not-json was received and answered with {}
C3_Witness ==
    /\ ResponseParsed
    /\ content = <<"not-json">>
    /\ ReturnedEmptyMapping

\* C20: a call of resolve_speakers_via_llm issues at most one inference
\* request, exactly one once the client is constructed and none otherwise; a
\* failed call or an invalid response is followed by no second request.
C20_AtMostOneRequest ==
    /\ requests <= 1
    /\ r_pc \in {"requested", "extracted", "returned"} => requests = 1
    /\ ResolverDone => requests = (IF credential THEN 1 ELSE 0)

\* the one request failed and the function was left without another
C20_Witness ==
    /\ r_pc = "raised"
    /\ r_exc = "APIError"
    /\ requests = 1

(***************************************************************************)
(* merge_known_speakers                                                    *)
(*                                                                         *)
(* A roster record is a dict from field name to value.  A str value of a   *)
(* roster record is [t |-> "chars", cs |-> <<...>>], its characters, so    *)
(* that strip() and lower() are computed character by character.           *)
(***************************************************************************)
Chars(cs) == [t |-> "chars", cs |-> cs]

\* bool(v) for the values of a roster record
truthy(v) ==
    CASE v.t = "chars" -> v.cs # << >>
      [] OTHER -> Truthy(v)

WhiteSpace == {" ", "\t", "\n"}

\* str.lower() on one character
lower_char(c) ==
    CASE c = "J" -> "j"
      [] c = "O" -> "o"
      [] c = "B" -> "b"
      [] c = "D" -> "d"
      [] c = "M" -> "m"
      [] c = "U" -> "u"
      [] c = "N" -> "n"
      [] c = "K" -> "k"
      [] c = "W" -> "w"
      [] OTHER -> c

lower(cs) == [i \in 1..Len(cs) |-> lower_char(cs[i])]

RECURSIVE lstrip(_), rstrip(_)
lstrip(cs) == IF cs # << >> /\ Head(cs) \in WhiteSpace THEN lstrip(Tail(cs)) ELSE cs
rstrip(cs) ==
    IF cs # << >> /\ cs[Len(cs)] \in WhiteSpace THEN rstrip(SubSeq(cs, 1, Len(cs) - 1)) ELSE cs
strip(cs) == rstrip(lstrip(cs))

\* (d.get("name") or "").strip().lower()
normalized_name(d) ==
    LET n == dict_get(d, "name") IN
    IF truthy(n) THEN lower(strip(n.cs)) ELSE << >>

\* _key_for without the lower(): "Jo" and "jo" get different keys
key_for_case_sensitive(d) ==
    IF truthy(dict_get(d, "bioguide"))
    THEN <<"bioguide:">> \o d["bioguide"].cs
    ELSE <<"name:">> \o (IF truthy(dict_get(d, "name")) THEN strip(d["name"].cs) ELSE << >>)

\* _key_for, lines 250-255
key_for(d) ==
    IF truthy(dict_get(d, "bioguide"))
    THEN <<"bioguide:">> \o d["bioguide"].cs
    ELSE <<"name:">> \o normalized_name(d)

\* the shallow merge with the later record winning
merge_fields_overwrite(existing, d) ==
    [ f \in DOMAIN existing \cup DOMAIN d |->
        IF f \in DOMAIN d /\ d[f].t # "null" THEN d[f] ELSE existing[f] ]

\* the shallow merge adding nothing to the existing record
merge_fields_keep_existing(existing, d) == existing

\* lines 268-270: keep existing fields; add any new one whose value is not None
merge_fields(existing, d) ==
    [ f \in DOMAIN existing \cup { g \in DOMAIN d : d[g].t # "null" } |->
        IF f \in DOMAIN existing THEN existing[f] ELSE d[f] ]

\* the three dicts of the loop: merged (with its insertion order) and name_keyed
EmptyMerge == [merged |-> EmptyDict, order |-> << >>, name_keyed |-> EmptyDict]

\* line 259: the record is skipped
skipped(d) == IF IsDict(d) THEN ~truthy(dict_get(d.o, "name")) ELSE TRUE

\* the loop body coalescing by name as well: a record whose key is new but
\* whose name is in name_keyed goes to the record name_keyed holds for it
merge_record_by_name(st, d) ==
    IF skipped(d) THEN st
    ELSE LET n == lower(strip(d.o["name"].cs))
             k == IF key_for(d.o) \notin DOMAIN st.merged /\ n \in DOMAIN st.name_keyed
                  THEN st.name_keyed[n]
                  ELSE key_for(d.o)
         IN IF k \notin DOMAIN st.merged
            THEN [merged |-> (k :> d.o) @@ st.merged,
                  order |-> Append(st.order, k),
                  name_keyed |-> (n :> k) @@ st.name_keyed]
            ELSE [st EXCEPT !.merged[k] = merge_fields(@, d.o)]

\* lines 259-270: the loop body for one element d of a source
merge_record(st, d) ==
    IF skipped(d) THEN st
    ELSE LET k == key_for(d.o) IN
         IF k \notin DOMAIN st.merged
         THEN [merged |-> (k :> d.o) @@ st.merged,
               order |-> Append(st.order, k),
               name_keyed |-> (lower(strip(d.o["name"].cs)) :> k) @@ st.name_keyed]
         ELSE [st EXCEPT !.merged[k] = merge_fields(@, d.o)]

\* line 272: list(merged.values()), in insertion order
merged_values(st) == [i \in 1..Len(st.order) |-> JObj(st.merged[st.order[i]])]

RECURSIVE concat(_)
\* the elements "for lst in sources: for d in lst" visits, in order
concat(srcs) == IF srcs = << >> THEN << >> ELSE Head(srcs) \o concat(Tail(srcs))

RECURSIVE merge_all(_, _)
merge_all(st, ds) == IF ds = << >> THEN st ELSE merge_all(merge_record(st, Head(ds)), Tail(ds))

\* merge_known_speakers(*srcs) as a function of its arguments
merge_known_speakers(srcs) == merged_values(merge_all(EmptyMerge, concat(srcs)))

----
\* how many records the three sources of a merge hold together
MaxRecords == 3

Jo == Chars(<<"J", "o">>)
JoLoose == Chars(<<" ", "j", "O", " ">>)
Bob == Chars(<<"B">>)
D1 == Chars(<<"D", "1">>)
EmptyStr == Chars(<< >>)
Majority == Chars(<<"m", "a", "j">>)
Minority == Chars(<<"m", "i", "n">>)
Chairman == Chars(<<"c">>)

\* the elements a source list may hold
RosterItems ==
    { JObj([name |-> Jo, bioguide |-> D1]),
      JObj([name |-> Jo, party |-> Majority]),
      JObj([name |-> JoLoose, party |-> Minority]),
      JObj([name |-> Jo, party |-> JNull, title |-> Chairman]),
      JObj([name |-> Bob, bioguide |-> D1, party |-> Minority]),
      JObj([name |-> Jo, bioguide |-> EmptyStr, title |-> Chairman]),
      JObj([bioguide |-> D1, title |-> Chairman]),
      JObj([name |-> EmptyStr, party |-> Majority]),
      Chars(<<"x">>) }

SeqsUpTo(S, n) == UNION { [1..k -> S] : k \in 0..n }

InitMerge ==
    /\ m_pc = "loop"
    /\ \E all \in SeqsUpTo(RosterItems, MaxRecords) :
         \E c1 \in 0..Len(all) :
           \E c2 \in c1..Len(all) :
             sources = << SubSeq(all, 1, c1), SubSeq(all, c1 + 1, c2),
                          SubSeq(all, c2 + 1, Len(all)) >>
    /\ m_pos = 0
    /\ merged = EmptyDict
    /\ merged_order = << >>
    /\ name_keyed = EmptyDict
    /\ m_result = << >>
    /\ held = concat(sources)
    /\ merged_obj = EmptyDict
    /\ ResolverIdle /\ LoaderIdle /\ TranscriptIdle /\ PipelineIdle
    /\ DiarizeIdle /\ RewriteIdle /\ FetchIdle

\* the record the loop is at, and the dicts as one value
CurrentRecord == concat(sources)[m_pos + 1]
MergeState == [merged |-> merged, order |-> merged_order, name_keyed |-> name_keyed]

\* merged[k] = d: the input record itself is stored, not a copy
stored_as_is(i) == i

\* line 263: merged[k] = dict(d) stores a new dict, whichever input record d is
stored_object(i) == 0

\* one iteration of the loop, lines 258-270, on the outcome of merge_record;
\* line 270 writes into the object merged[k] is, and so into an input record
\* when merged[k] is that record
Iterate ==
    /\ m_pc = "loop"
    /\ m_pos < Len(concat(sources))
    /\ LET st == merge_record(MergeState, CurrentRecord) IN
         /\ merged' = st.merged
         /\ merged_order' = st.order
         /\ name_keyed' = st.name_keyed
         /\ IF skipped(CurrentRecord) THEN UNCHANGED << held, merged_obj >>
            ELSE LET k == key_for(CurrentRecord.o) IN
                 IF k \notin DOMAIN merged
                 THEN /\ merged_obj' = (k :> stored_object(m_pos + 1)) @@ merged_obj
                      /\ held' = held
                 ELSE /\ merged_obj' = merged_obj
                      /\ held' = IF merged_obj[k] = 0 THEN held
                                 ELSE [held EXCEPT ![merged_obj[k]] = JObj(st.merged[k])]
    /\ m_pos' = m_pos + 1
    /\ UNCHANGED << m_pc, sources, m_result >>

\* lines 259-260: not a dict, or no name: continue
MergeSkip ==
    /\ m_pc = "loop" /\ m_pos < Len(concat(sources))
    /\ skipped(CurrentRecord)
    /\ Iterate
    /\ UNCHANGED << r_vars, l_vars, t_vars, p_vars, d_vars, w_vars, f_vars >>

\* lines 262-265: the key is new: insert a copy
MergeInsert ==
    /\ m_pc = "loop" /\ m_pos < Len(concat(sources))
    /\ ~skipped(CurrentRecord)
    /\ Len(merge_record(MergeState, CurrentRecord).order) > Len(merged_order)
    /\ Iterate
    /\ UNCHANGED << r_vars, l_vars, t_vars, p_vars, d_vars, w_vars, f_vars >>

\* lines 266-270: the key is known: shallow merge into the existing record
MergeInto ==
    /\ m_pc = "loop" /\ m_pos < Len(concat(sources))
    /\ ~skipped(CurrentRecord)
    /\ Len(merge_record(MergeState, CurrentRecord).order) = Len(merged_order)
    /\ Iterate
    /\ UNCHANGED << r_vars, l_vars, t_vars, p_vars, d_vars, w_vars, f_vars >>

\* line 272: return list(merged.values())
MergeReturn ==
    /\ m_pc = "loop"
    /\ m_pos = Len(concat(sources))
    /\ m_result' = merged_values(MergeState)
    /\ m_pc' = "done"
    /\ UNCHANGED << sources, m_pos, merged, merged_order, name_keyed, held, merged_obj >>
    /\ UNCHANGED << r_vars, l_vars, t_vars, p_vars, d_vars, w_vars, f_vars >>

NextMerge ==
    \/ MergeSkip
    \/ MergeInsert
    \/ MergeInto
    \/ MergeReturn

SpecMerge == InitMerge /\ [][NextMerge]_vars

(***************************************************************************)
(* Properties of merge_known_speakers                                      *)
(***************************************************************************)
\* the elements of the sources in iteration order, and those consumed so far
Input == concat(sources)
Consumed == 1..m_pos

\* an IdentityRecord: a dict with a non-empty name
IsIdentityRecord(d) ==
    IF d.t = "obj" /\ "name" \in DOMAIN d.o
    THEN d.o["name"].t = "chars" /\ d.o["name"].cs # << >>
    ELSE FALSE

HasBioguide(d) ==
    IF "bioguide" \in DOMAIN d
    THEN d["bioguide"].t = "chars" /\ d["bioguide"].cs # << >>
    ELSE FALSE

\* the identity key of section 3: bioguide:<id> when the record has a bioguide
\* value, else name:<lower-cased trimmed name>
IdentityKey(d) ==
    IF HasBioguide(d)
    THEN <<"bioguide:">> \o d["bioguide"].cs
    ELSE <<"name:">> \o lower(strip(d["name"].cs))

\* the consumed identity records with key k
RecordsWithKey(k) ==
    { p \in Consumed : IF IsIdentityRecord(Input[p]) THEN IdentityKey(Input[p].o) = k ELSE FALSE }

Min(S) == CHOOSE x \in S : \A y \in S : x <= y

\* C4: a first source with one record that has a name and a bioguide, then a
\* second source with one record of the same name and no bioguide, merge to a
\* single record that carries the fields of both.
C4_NameCollisionMergesOntoBioguideRecord ==
    ( /\ m_pc = "done"
      /\ Len(sources[1]) = 1 /\ Len(sources[2]) = 1 /\ Len(sources[3]) = 0
      /\ IsIdentityRecord(sources[1][1]) /\ IsIdentityRecord(sources[2][1])
      /\ HasBioguide(sources[1][1].o)
      /\ "bioguide" \notin DOMAIN sources[2][1].o
      /\ sources[2][1].o["name"] = sources[1][1].o["name"] )
    => /\ Len(m_result) = 1
       /\ LET a == sources[1][1].o
              b == sources[2][1].o
              r == m_result[1].o
          IN /\ DOMAIN r = DOMAIN a \cup DOMAIN b
             /\ \A f \in DOMAIN a : r[f] = a[f]
             /\ \A f \in DOMAIN b \ DOMAIN a : r[f] = b[f]

\* C5: the returned list holds no two records with the same identity key,
\* the key being computed on the returned records.
C5_ResultKeysDistinct ==
    m_pc = "done" =>
      \A i, j \in 1..Len(m_result) :
        i # j => IdentityKey(m_result[i].o) # IdentityKey(m_result[j].o)

\* three identity records went in, two of them shared a key, two records came out
C5_Witness ==
    /\ m_pc = "done"
    /\ Cardinality({ p \in Consumed : IsIdentityRecord(Input[p]) }) = 3
    /\ Len(m_result) = 2

\* C6 as stated: every field of a merged record holds the value of the first
\* record with that key that carried the field.
C6_ValueOfFirstCarrier ==
    \A k \in DOMAIN merged :
      \A f \in DOMAIN merged[k] :
        LET carriers == { p \in RecordsWithKey(k) : f \in DOMAIN Input[p].o } IN
          /\ carriers # {}
          /\ merged[k][f] = Input[Min(carriers)].o[f]

\* C6 amended: every field of a merged record holds the value of the first
\* record with that key that carried the field with a value other than null,
\* except that the fields of the record that was inserted are kept as they
\* are, null included; in particular no later record overwrites a field.
C6_ValueOfFirstEffectiveCarrier ==
    \A k \in DOMAIN merged :
      \A f \in DOMAIN merged[k] :
        LET first == Min(RecordsWithKey(k))
            carriers == { p \in RecordsWithKey(k) :
                            IF f \in DOMAIN Input[p].o
                            THEN p = first \/ Input[p].o[f].t # "null"
                            ELSE FALSE }
        IN /\ carriers # {}
           /\ merged[k][f] = Input[Min(carriers)].o[f]

\* two records with one key carried different values of a field; the earlier
\* value is in the result
C6_Witness ==
    /\ m_pc = "done"
    /\ \E k \in DOMAIN merged :
         \E p, q \in RecordsWithKey(k) :
           \E f \in DOMAIN Input[p].o \cap DOMAIN Input[q].o :
             /\ p < q
             /\ Input[p].o[f].t # "null" /\ Input[q].o[f].t # "null"
             /\ Input[p].o[f] # Input[q].o[f]
             /\ merged[k][f] = Input[p].o[f]

\* C7 as stated: every field an input record sets is in the merged record of
\* that record's key.
C7_NoFieldLost ==
    \A p \in Consumed :
      IsIdentityRecord(Input[p]) =>
        LET k == IdentityKey(Input[p].o) IN
          /\ k \in DOMAIN merged
          /\ \A f \in DOMAIN Input[p].o : f \in DOMAIN merged[k]

\* C7 amended: every field an input record with a non-empty name sets to a
\* value other than null is in the merged record of that record's key.
C7_NoNonNullFieldLost ==
    \A p \in Consumed :
      IsIdentityRecord(Input[p]) =>
        LET k == IdentityKey(Input[p].o) IN
          /\ k \in DOMAIN merged
          /\ \A f \in DOMAIN Input[p].o :
               Input[p].o[f].t # "null" => f \in DOMAIN merged[k]

\* a later record brought a field the inserted record did not have
C7_Witness ==
    /\ m_pc = "done"
    /\ \E k \in DOMAIN merged :
         \E q \in RecordsWithKey(k) :
           \E f \in DOMAIN Input[q].o :
             /\ Min(RecordsWithKey(k)) < q
             /\ f \notin DOMAIN Input[Min(RecordsWithKey(k))].o
             /\ merged[k][f] = Input[q].o[f]

\* C8: merge(A, B, C) equals merge(merge(A, B), C), record for record and
\* field for field.
C8_MergeAssociative ==
    m_pc = "done" =>
      m_result = merge_known_speakers(
                   << merge_known_speakers(<< sources[1], sources[2] >>), sources[3] >>)

\* three non-empty sources, and a record of the third merged into an earlier one
C8_Witness ==
    /\ m_pc = "done"
    /\ \A i \in 1..3 : Len(sources[i]) = 1
    /\ \A p \in Consumed : IsIdentityRecord(Input[p])
    /\ Len(merge_known_speakers(<< sources[1], sources[2] >>)) = 2
    /\ Len(m_result) = 2
    /\ m_result # merge_known_speakers(<< sources[1], sources[2] >>)

\* C21: merge_known_speakers leaves every input list and every input record
\* as it was: each record of merged, and so each returned record, is a dict
\* the merge created, and merging later records into it alters no record a
\* source holds.
C21_InputsUnchanged ==
    m_pc \in {"loop", "done"} =>
        /\ held = concat(sources)
        /\ \A k \in DOMAIN merged_obj : merged_obj[k] = 0
        /\ DOMAIN merged_obj = DOMAIN merged

\* a record with a bioguide was inserted, a later record with the same
\* bioguide added its party to the copy, and the first input record still has
\* no party
C21_Witness ==
    /\ m_pc = "done"
    /\ Len(held) >= 2
    /\ held[1] = JObj([name |-> Jo, bioguide |-> D1])
    /\ Len(m_result) = 1
    /\ "party" \in DOMAIN m_result[1].o

(***************************************************************************)
(* Roster loaders                                                          *)
(*                                                                         *)
(* A file is absent or a sequence of lines, each a token sequence (a blank *)
(* line is the empty sequence).  json.load reads the lines as one document.*)
(***************************************************************************)
\* how many lines a roster file may hold
MaxLines == 2

AbsentFile == [exists |-> FALSE, lines |-> << >>]
FileOf(ls) == [exists |-> TRUE, lines |-> ls]

\* the lines of a line-delimited roster file
JsonlLines ==
    { << >>,
      <<"not-json">>,
      <<"{", "\"type\"", ":", "\"witness\"">>,
      <<"{", "\"type\"", ":", "\"metadata\"", "}">>,
      <<"{", "\"type\"", ":", "\"witness\"", ",", "\"name\"", ":", "\"x\"", "}">>,
      <<"{", "\"type\"", ":", "\"person\"", ",", "\"name\"", ":", "\"\"", "}">>,
      <<"{", "\"type\"", ":", "\"member\"", "}">>,
      <<"{", "\"name\"", ":", "\"x\"", "}">>,
      <<"{", "\"type\"", ":", "[", "]", ",", "\"name\"", ":", "\"x\"", "}">>,
      <<"[", "]">>,
      <<"1">>,
      <<"null">> }

NamedObject == <<"{", "\"name\"", ":", "\"x\"", "}">>
NamelessObject == <<"{", "\"other\"", ":", "1", "}">>

\* the lines of a flat-list roster file
JsonListLines ==
    { <<"not-json">>,
      <<"[">>,
      <<"[", "]">>,
      <<"{", "}">>,
      <<"1">>,
      <<"[">> \o NamedObject \o <<"]">>,
      <<"[">> \o NamelessObject \o <<",">> \o NamedObject \o <<"]">>,
      <<"[", "1", ",">> \o NamedObject \o <<",">>,
      NamedObject \o <<"]">> }

\* the lines of a committee roster file
CommitteeLines ==
    { <<"not-json">>,
      <<"{">>,
      <<"[", "]">>,
      <<"{", "}">>,
      <<"{", "\"other\"", ":", "[">> \o NamedObject \o <<"]", "}">>,
      <<"{", "\"HSAG\"", ":", "1", "}">>,
      <<"{", "\"HSAG\"", ":", "[">> \o NamedObject \o <<",">> \o NamelessObject \o <<"]", "}">>,
      <<"{", "\"HSAG\"", ":", "[", "1", ",">> \o NamedObject \o <<"]", "}">>,
      <<"{", "\"HSAG\"", ":", "{", "\"x\"", ":">> \o NamedObject \o <<"}", "}">>,
      <<"{", "\"HSAG\"", ":", "{", "\"x\"", ":", "1", "}", "}">>,
      <<"{", "\"HSAG\"", ":">>,
      <<"[">> \o NamedObject \o <<"]", "}">> }

LinesOf(which) ==
    CASE which = "jsonl" -> JsonlLines
      [] which = "json" -> JsonListLines
      [] which = "committee" -> CommitteeLines

\* the whole file as one document
Document == concat(file.lines)

Loaded(list) == [kind |-> "return", list |-> list, exc |-> ""]
LoadRaised(e) == [kind |-> "raise", list |-> << >>, exc |-> e]

RosterTypes == {"witness", "member", "person"}

\* lines 156-164 for one line: "skip", "append" (of obj) or "raise"
jsonl_line(raw) ==
    IF raw = << >> THEN [act |-> "skip", obj |-> JNull, exc |-> ""]
    ELSE LET p == json_loads(raw) IN
         IF ~p.ok THEN [act |-> "skip", obj |-> JNull, exc |-> ""]
         ELSE IF ~IsDict(p.val) THEN [act |-> "raise", obj |-> JNull, exc |-> "AttributeError"]
         ELSE LET ty == dict_get(p.val.o, "type") IN
              IF ty.t \in {"arr", "obj"}
              THEN [act |-> "raise", obj |-> JNull, exc |-> "TypeError"]
              ELSE IF (IF ty.t = "str" THEN ty.s \in RosterTypes ELSE FALSE)
                      /\ Truthy(dict_get(p.val.o, "name"))
                   THEN [act |-> "append", obj |-> p.val, exc |-> ""]
                   ELSE [act |-> "skip", obj |-> JNull, exc |-> ""]

\* isinstance(d, dict) and d.get("name")
named_dict(d) == IF IsDict(d) THEN Truthy(dict_get(d.o, "name")) ELSE FALSE

RECURSIVE select_named(_)
select_named(items) ==
    IF items = << >> THEN << >>
    ELSE (IF named_dict(Head(items)) THEN << Head(items) >> ELSE << >>)
           \o select_named(Tail(items))

\* load_known_speakers_from_json, lines 177-182
load_known_speakers_from_json(f) ==
    IF ~f.exists THEN LoadRaised("FileNotFoundError")
    ELSE LET p == json_loads(concat(f.lines)) IN
         IF ~p.ok THEN LoadRaised("JSONDecodeError")
         ELSE IF p.val.t = "arr" THEN Loaded(select_named(p.val.a))
         ELSE Loaded(<< >>)

\* the default committee_id after (committee_id or "").strip().upper()
CommitteeKey == "HSAG"

\* lines 224-227: dict(item) with the three setdefault calls
member_row(item) ==
    JObj(item.o @@ [type |-> JStr("member"), committee_id |-> JStr(CommitteeKey),
                    chamber |-> JStr("house")])

RECURSIVE member_rows(_)
member_rows(items) ==
    IF items = << >> THEN << >>
    ELSE (IF named_dict(Head(items)) THEN << member_row(Head(items)) >> ELSE << >>)
           \o member_rows(Tail(items))

\* the values of a dict with at most one key, as raw.items() yields them
dict_values(d) == IF DOMAIN d = {} THEN << >> ELSE << d[CHOOSE k \in DOMAIN d : TRUE] >>

\* load_committee_members_from_unitedstates_file, lines 211-238
load_committee_members_from_unitedstates_file(f) ==
    IF ~f.exists THEN Loaded(<< >>)
    ELSE LET p == json_loads(concat(f.lines)) IN
         IF ~p.ok THEN Loaded(<< >>)
         ELSE IF ~IsDict(p.val) THEN LoadRaised("AttributeError")
         ELSE LET raw == dict_get(p.val.o, CommitteeKey) IN
              CASE raw.t = "arr" -> Loaded(member_rows(raw.a))
                [] raw.t = "obj" -> Loaded(member_rows(dict_values(raw.o)))
                [] OTHER -> Loaded(<< >>)

InitLoader ==
    /\ l_pc = "start"
    /\ loader \in {"jsonl", "json", "committee"}
    /\ \/ file = AbsentFile
       \/ \E ls \in SeqsUpTo(LinesOf(loader), IF loader = "jsonl" THEN MaxLines ELSE 1) :
            file = FileOf(ls)
    /\ l_pos = 0
    /\ l_result = << >>
    /\ l_exc = ""
    /\ ResolverIdle /\ MergeIdle /\ TranscriptIdle /\ PipelineIdle
    /\ DiarizeIdle /\ RewriteIdle /\ FetchIdle

\* line 154: p.open(...) of load_known_speakers_from_jsonl; nothing catches a
\* missing file
JsonlOpen ==
    /\ l_pc = "start" /\ loader = "jsonl"
    /\ IF file.exists
       THEN l_pc' = "lines" /\ l_pos' = 1 /\ l_exc' = l_exc
       ELSE l_pc' = "raised" /\ l_pos' = l_pos /\ l_exc' = "FileNotFoundError"
    /\ UNCHANGED << loader, file, l_result >>
    /\ UNCHANGED << r_vars, m_vars, t_vars, p_vars, d_vars, w_vars, f_vars >>

\* lines 155-164: one iteration of "for raw in f"
JsonlLine ==
    /\ l_pc = "lines" /\ l_pos <= Len(file.lines)
    /\ LET out == jsonl_line(file.lines[l_pos]) IN
         /\ l_result' = IF out.act = "append" THEN Append(l_result, out.obj) ELSE l_result
         /\ l_pc' = IF out.act = "raise" THEN "raised" ELSE "lines"
         /\ l_exc' = out.exc
    /\ l_pos' = l_pos + 1
    /\ UNCHANGED << loader, file >>
    /\ UNCHANGED << r_vars, m_vars, t_vars, p_vars, d_vars, w_vars, f_vars >>

\* line 165: return result
JsonlReturn ==
    /\ l_pc = "lines" /\ l_pos > Len(file.lines)
    /\ l_pc' = "returned"
    /\ UNCHANGED << loader, file, l_pos, l_result, l_exc >>
    /\ UNCHANGED << r_vars, m_vars, t_vars, p_vars, d_vars, w_vars, f_vars >>

\* load_known_speakers_from_json as one step
LoadJson ==
    /\ l_pc = "start" /\ loader = "json"
    /\ LET out == load_known_speakers_from_json(file) IN
         /\ l_pc' = IF out.kind = "return" THEN "returned" ELSE "raised"
         /\ l_result' = out.list
         /\ l_exc' = out.exc
    /\ UNCHANGED << loader, file, l_pos >>
    /\ UNCHANGED << r_vars, m_vars, t_vars, p_vars, d_vars, w_vars, f_vars >>

\* load_committee_members_from_unitedstates_file as one step
LoadCommittee ==
    /\ l_pc = "start" /\ loader = "committee"
    /\ LET out == load_committee_members_from_unitedstates_file(file) IN
         /\ l_pc' = IF out.kind = "return" THEN "returned" ELSE "raised"
         /\ l_result' = out.list
         /\ l_exc' = out.exc
    /\ UNCHANGED << loader, file, l_pos >>
    /\ UNCHANGED << r_vars, m_vars, t_vars, p_vars, d_vars, w_vars, f_vars >>

NextLoader ==
    \/ JsonlOpen
    \/ JsonlLine
    \/ JsonlReturn
    \/ LoadJson
    \/ LoadCommittee

SpecLoader == InitLoader /\ [][NextLoader]_vars

(***************************************************************************)
(* Properties of the loaders                                               *)
(***************************************************************************)
LoaderDone == l_pc \in {"returned", "raised"}

\* the source is absent, or its content does not parse: as one document for
\* the two JSON files, on every line for the line-delimited file
SourceUnusable ==
    \/ ~file.exists
    \/ loader \in {"json", "committee"} /\ ~json_loads(Document).ok
    \/ loader = "jsonl" /\ \A i \in 1..Len(file.lines) : ~json_loads(file.lines[i]).ok

\* C9: each loader returns an empty list, and does not raise, when its source
\* file is absent or fails to parse as a whole.
C9_UnusableSourceYieldsEmptyList ==
    (LoaderDone /\ SourceUnusable) => (l_pc = "returned" /\ l_result = << >>)

\* a line that is a JSON object of a roster type with a name, as a value
RosterRecordOf(raw) ==
    LET p == json_loads(raw) IN
    IF p.ok /\ p.val.t = "obj"
    THEN IF {"type", "name"} \subseteq DOMAIN p.val.o
         THEN IF p.val.o["type"].t = "str" /\ p.val.o["name"].t = "str"
              THEN IF p.val.o["type"].s \in RosterTypes /\ p.val.o["name"].s # ""
                   THEN << p.val >>
                   ELSE << >>
              ELSE << >>
         ELSE << >>
    ELSE << >>

RECURSIVE RosterRecords(_)
RosterRecords(ls) ==
    IF ls = << >> THEN << >> ELSE RosterRecordOf(Head(ls)) \o RosterRecords(Tail(ls))

\* C10: load_known_speakers_from_jsonl returns exactly the lines, in file
\* order, that are a JSON object of type witness, member or person with a name;
\* every other line is skipped without failing the load.
C10_JsonlKeepsExactlyRosterLines ==
    (loader = "jsonl" /\ file.exists /\ LoaderDone)
      => (l_pc = "returned" /\ l_result = RosterRecords(file.lines))

(***************************************************************************)
(* Transcript head: read_transcript_head, parse_utterances and             *)
(* summarize_observed_speakers                                             *)
(*                                                                         *)
(* A transcript line is the sequence of its characters; SPEAKER_LINE_RE is *)
(* matched character by character.                                         *)
(***************************************************************************)
Digit == {"0", "1", "2", "3", "4", "5", "6", "7", "8", "9"}
Upper == {"A", "B", "C", "D", "E", "F", "G", "H", "I", "J", "K", "L", "M",
          "N", "O", "P", "Q", "R", "S", "T", "U", "V", "W", "X", "Y", "Z"}

char_at(cs, i) == IF i >= 1 /\ i <= Len(cs) THEN cs[i] ELSE ""

\* \s* from position i: the position of the first character that is no whitespace
RECURSIVE skip_space(_, _)
skip_space(cs, i) == IF char_at(cs, i) \in WhiteSpace THEN skip_space(cs, i + 1) ELSE i

\* \d{2}:\d{2}:\d{2} at position i
stamp_at(cs, i) ==
    /\ \A k \in {0, 1, 3, 4, 6, 7} : char_at(cs, i + k) \in Digit
    /\ \A k \in {2, 5} : char_at(cs, i + k) = ":"

literal_at(cs, i, lit) == \A k \in 1..Len(lit) : char_at(cs, i + k - 1) = lit[k]

NoMatch == [matched |-> FALSE, start |-> << >>, end |-> << >>, label |-> << >>, text |-> << >>]

\* SPEAKER_LINE_RE.match(line):
\*   ^\[(start)\s*-\s*(end)\]\s+(SPEAKER_[A-Z]):\s*(.*)$
\* "." matches no newline and "$" matches at the end or before a final newline
SPEAKER_LINE_RE(cs) ==
    LET dash  == skip_space(cs, 10)
        end   == skip_space(cs, dash + 1)
        gap   == end + 9
        label == skip_space(cs, gap)
        colon == label + 9
        rest  == SubSeq(cs, skip_space(cs, colon + 1), Len(cs))
        text  == IF rest # << >> /\ rest[Len(rest)] = "\n"
                 THEN SubSeq(rest, 1, Len(rest) - 1) ELSE rest
    IN IF /\ char_at(cs, 1) = "["
          /\ stamp_at(cs, 2)
          /\ char_at(cs, dash) = "-"
          /\ stamp_at(cs, end)
          /\ char_at(cs, end + 8) = "]"
          /\ label > gap
          /\ literal_at(cs, label, <<"S", "P", "E", "A", "K", "E", "R", "_">>)
          /\ char_at(cs, label + 8) \in Upper
          /\ char_at(cs, colon) = ":"
          /\ \A k \in 1..Len(text) : text[k] # "\n"
       THEN [matched |-> TRUE, start |-> SubSeq(cs, 2, 9), end |-> SubSeq(cs, end, end + 7),
             label |-> SubSeq(cs, label, label + 8), text |-> text]
       ELSE NoMatch

\* s[:k]
slice_to(s, k) ==
    IF k >= 0 THEN SubSeq(s, 1, IF k < Len(s) THEN k ELSE Len(s))
    ELSE SubSeq(s, 1, IF Len(s) + k > 0 THEN Len(s) + k ELSE 0)

(***************************************************************************)
(* read_transcript_head                                                    *)
(***************************************************************************)
\* the i-th line as iterating the file yields it, with its terminator
raw_line(f, i) ==
    f.lines[i] \o (IF i < Len(f.lines) \/ f.final_newline THEN <<"\n">> ELSE << >>)

\* line.rstrip("\n")
RECURSIVE rstrip_newline(_)
rstrip_newline(cs) ==
    IF cs # << >> /\ cs[Len(cs)] = "\n" THEN rstrip_newline(SubSeq(cs, 1, Len(cs) - 1)) ELSE cs

\* "if i >= max_lines: break" tested one line too late
limit_reached_late(i, n) == i > n

\* line 66: if i >= max_lines: break
limit_reached(i, n) == i >= n

\* the for loop of lines 65-68 from index i on, lines read so far in acc
RECURSIVE read_lines(_, _, _, _)
read_lines(f, n, i, acc) ==
    IF i >= Len(f.lines) \/ limit_reached(i, n) THEN acc
    ELSE read_lines(f, n, i + 1, Append(acc, rstrip_newline(raw_line(f, i + 1))))

\* read_transcript_head(path, max_lines) on a file that opens
read_transcript_head(f, n) == read_lines(f, n, 0, << >>)

(***************************************************************************)
(* parse_utterances                                                        *)
(***************************************************************************)
Utterance(index, start_time, end_time, speaker_label, text, previous_speaker_label) ==
    [index |-> index, start_time |-> start_time, end_time |-> end_time,
     speaker_label |-> speaker_label, text |-> text,
     previous_speaker_label |-> previous_speaker_label]

\* the loop body with idx advanced on every line, matching or not
parse_line_counting_lines(st, line) ==
    LET m == SPEAKER_LINE_RE(line) IN
    IF ~m.matched THEN [st EXCEPT !.idx = st.idx + 1]
    ELSE [utterances |-> Append(st.utterances,
                                Utterance(st.idx, m.start, m.end, m.label, strip(m.text),
                                          st.last_label)),
          last_label |-> Chars(m.label),
          idx |-> st.idx + 1]

\* the loop body with last_label forgotten on a non-matching line
parse_line_forgetting(st, line) ==
    LET m == SPEAKER_LINE_RE(line) IN
    IF ~m.matched THEN [st EXCEPT !.last_label = JNull]
    ELSE [utterances |-> Append(st.utterances,
                                Utterance(st.idx, m.start, m.end, m.label, strip(m.text),
                                          st.last_label)),
          last_label |-> Chars(m.label),
          idx |-> st.idx + 1]

\* lines 82-101: one iteration of "for line in lines"
parse_line(st, line) ==
    LET m == SPEAKER_LINE_RE(line) IN
    IF ~m.matched THEN st
    ELSE [utterances |-> Append(st.utterances,
                                Utterance(st.idx, m.start, m.end, m.label, strip(m.text),
                                          st.last_label)),
          last_label |-> Chars(m.label),
          idx |-> st.idx + 1]

RECURSIVE parse_lines(_, _)
parse_lines(st, lines) ==
    IF lines = << >> THEN st ELSE parse_lines(parse_line(st, Head(lines)), Tail(lines))

\* parse_utterances(lines): lines 78-80, the loop and the return of line 103
parse_utterances(lines) ==
    parse_lines([utterances |-> << >>, last_label |-> JNull, idx |-> 0], lines).utterances

(***************************************************************************)
(* summarize_observed_speakers                                             *)
(***************************************************************************)
\* h.text[:400]
SnippetLength == 400

\* lines 118-119: by_label.setdefault(u.speaker_label, []).append(u)
group_utterance(st, u) ==
    IF u.speaker_label \in DOMAIN st.by_label
    THEN [st EXCEPT !.by_label[u.speaker_label] = Append(@, u)]
    ELSE [by_label |-> (u.speaker_label :> <<u>>) @@ st.by_label,
          label_order |-> Append(st.label_order, u.speaker_label)]

RECURSIVE group_utterances(_, _)
group_utterances(st, us) ==
    IF us = << >> THEN st ELSE group_utterances(group_utterance(st, Head(us)), Tail(us))

\* lines 126-134
example_of(h) ==
    [index |-> h.index, start |-> h.start_time, end |-> h.end_time,
     prev_label |-> h.previous_speaker_label,
     text_snippet |-> slice_to(h.text, SnippetLength)]

\* the entry with every utterance of the label kept as an example
summary_entry_uncapped(us, k) ==
    [first_seen |-> IF us # << >> THEN Chars(us[1].start_time) ELSE JNull,
     num_observed |-> Len(us),
     examples |-> [i \in 1..Len(us) |-> example_of(us[i])]]

\* the entry with num_observed counting the retained examples
summary_entry_counting_examples(us, k) ==
    LET head_us == slice_to(us, k) IN
    [first_seen |-> IF head_us # << >> THEN Chars(head_us[1].start_time) ELSE JNull,
     num_observed |-> Len(head_us),
     examples |-> [i \in 1..Len(head_us) |-> example_of(head_us[i])]]

\* lines 123-139: the entry of one label, us its utterances
summary_entry(us, k) ==
    LET head_us == slice_to(us, k) IN
    [first_seen |-> IF head_us # << >> THEN Chars(head_us[1].start_time) ELSE JNull,
     num_observed |-> Len(us),
     examples |-> [i \in 1..Len(head_us) |-> example_of(head_us[i])]]

\* summarize_observed_speakers(utterances, max_utterances_per_speaker)
summarize_observed_speakers(us, k) ==
    LET g == group_utterances([by_label |-> EmptyDict, label_order |-> << >>], us).by_label IN
    [label \in DOMAIN g |-> summary_entry(g[label], k)]

(***************************************************************************)
(* Transcripts                                                             *)
(***************************************************************************)
MaxFileLines == 3
MaxLimit == 3
MaxCap == 2

Stamp(d) == <<"0", "0", ":", "0", "0", ":", "0", d>>
Label(letters) == <<"S", "P", "E", "A", "K", "E", "R", "_">> \o letters

\* "[" start dash end "]" gap label ":" rest
Line(start, dash, end, gap, label, rest) ==
    <<"[">> \o start \o dash \o end \o <<"]">> \o gap \o label \o <<":">> \o rest

\* [00:00:01 - 00:00:02] SPEAKER_A: hi
LineA == Line(Stamp("1"), <<" ", "-", " ">>, Stamp("2"), <<" ">>, Label(<<"A">>), <<" ", "h", "i">>)
\* [00:00:03 - 00:00:04] SPEAKER_B:yo   (trailing blank)
LineB == Line(Stamp("3"), <<" ", "-", " ">>, Stamp("4"), <<" ">>, Label(<<"B">>), <<"y", "o", " ">>)
\* [00:00:05-00:00:06]  SPEAKER_A:      (no text)
LineA2 == Line(Stamp("5"), <<"-">>, Stamp("6"), <<" ", " ">>, Label(<<"A">>), << >>)
\* [00:00:07 - 00:00:08] SPEAKER_AB: hi
LineAB == Line(Stamp("7"), <<" ", "-", " ">>, Stamp("8"), <<" ">>, Label(<<"A", "B">>), <<" ", "h", "i">>)
\* [00:00:01 - 00:00:02]SPEAKER_B: hi   (no blank before the label)
LineNoGap == Line(Stamp("1"), <<" ", "-", " ">>, Stamp("2"), << >>, Label(<<"B">>), <<" ", "h", "i">>)
\* a blank line
LineBlank == << >>

TranscriptLines == { LineA, LineB, LineA2, LineAB, LineNoGap, LineBlank }

AbsentTranscript == [exists |-> FALSE, lines |-> << >>, final_newline |-> FALSE]

\* a file of these lines, each ended by a newline except, without a final
\* newline, the last; only the empty file has no line, and a line that lacks
\* its newline is not empty
TranscriptOf(ls, nl) == [exists |-> TRUE, lines |-> ls, final_newline |-> nl]

Transcripts ==
    { AbsentTranscript }
      \cup { TranscriptOf(ls, TRUE) :
                ls \in SeqsUpTo(TranscriptLines, MaxFileLines) \ { << >> } }
      \cup { TranscriptOf(ls, FALSE) :
                ls \in { x \in SeqsUpTo(TranscriptLines, MaxFileLines) :
                           x = << >> \/ x[Len(x)] # << >> } }

InitTranscript ==
    /\ t_pc = "start"
    /\ transcript \in Transcripts
    /\ max_lines \in 0..MaxLimit
    /\ max_utterances_per_speaker = 0
    /\ t_pos = 0
    /\ head_lines = << >>
    /\ utterances = << >>
    /\ last_label = JNull
    /\ idx = 0
    /\ by_label = EmptyDict
    /\ label_order = << >>
    /\ summary = EmptyDict
    /\ t_exc = ""
    /\ ResolverIdle /\ MergeIdle /\ LoaderIdle /\ PipelineIdle
    /\ DiarizeIdle /\ RewriteIdle /\ FetchIdle

\* lines 62-64: path.open raises when the file cannot be opened
ReadOpen ==
    /\ t_pc = "start"
    /\ IF transcript.exists
       THEN t_pc' = "reading" /\ t_exc' = t_exc
       ELSE t_pc' = "raised" /\ t_exc' = "FileNotFoundError"
    /\ UNCHANGED << transcript, max_lines, max_utterances_per_speaker, t_pos, head_lines,
                    utterances, last_label, idx, by_label, label_order, summary >>
    /\ UNCHANGED << r_vars, m_vars, l_vars, p_vars, d_vars, w_vars, f_vars >>

\* lines 65-68: one iteration that appends a line
ReadLine ==
    /\ t_pc = "reading"
    /\ t_pos < Len(transcript.lines)
    /\ ~limit_reached(t_pos, max_lines)
    /\ head_lines' = Append(head_lines, rstrip_newline(raw_line(transcript, t_pos + 1)))
    /\ t_pos' = t_pos + 1
    /\ UNCHANGED << t_pc, transcript, max_lines, max_utterances_per_speaker,
                    utterances, last_label, idx, by_label, label_order, summary, t_exc >>
    /\ UNCHANGED << r_vars, m_vars, l_vars, p_vars, d_vars, w_vars, f_vars >>

\* lines 66-69: the file is exhausted or the limit is reached; return lines
ReadReturn ==
    /\ t_pc = "reading"
    /\ t_pos >= Len(transcript.lines) \/ limit_reached(t_pos, max_lines)
    /\ t_pc' = "parsing"
    /\ t_pos' = 0
    /\ UNCHANGED << transcript, max_lines, max_utterances_per_speaker, head_lines,
                    utterances, last_label, idx, by_label, label_order, summary, t_exc >>
    /\ UNCHANGED << r_vars, m_vars, l_vars, p_vars, d_vars, w_vars, f_vars >>

\* lines 82-101: one iteration of the loop of parse_utterances
ParseLine ==
    /\ t_pc = "parsing"
    /\ t_pos < Len(head_lines)
    /\ LET st == parse_line([utterances |-> utterances, last_label |-> last_label, idx |-> idx],
                            head_lines[t_pos + 1])
       IN /\ utterances' = st.utterances
          /\ last_label' = st.last_label
          /\ idx' = st.idx
    /\ t_pos' = t_pos + 1
    /\ UNCHANGED << t_pc, transcript, max_lines, max_utterances_per_speaker, head_lines,
                    by_label, label_order, summary, t_exc >>
    /\ UNCHANGED << r_vars, m_vars, l_vars, p_vars, d_vars, w_vars, f_vars >>

\* line 103: return utterances; summarize_observed_speakers is called with a cap
ParseReturn ==
    /\ t_pc = "parsing"
    /\ t_pos = Len(head_lines)
    /\ max_utterances_per_speaker' \in 0..MaxCap
    /\ t_pc' = "summarize"
    /\ t_pos' = 0
    /\ UNCHANGED << transcript, max_lines, head_lines, utterances, last_label, idx,
                    by_label, label_order, summary, t_exc >>
    /\ UNCHANGED << r_vars, m_vars, l_vars, p_vars, d_vars, w_vars, f_vars >>

\* lines 118-119: one iteration of "for u in utterances"
GroupUtterance ==
    /\ t_pc = "summarize"
    /\ t_pos < Len(utterances)
    /\ LET st == group_utterance([by_label |-> by_label, label_order |-> label_order],
                                 utterances[t_pos + 1])
       IN /\ by_label' = st.by_label
          /\ label_order' = st.label_order
    /\ t_pos' = t_pos + 1
    /\ UNCHANGED << t_pc, transcript, max_lines, max_utterances_per_speaker, head_lines,
                    utterances, last_label, idx, summary, t_exc >>
    /\ UNCHANGED << r_vars, m_vars, l_vars, p_vars, d_vars, w_vars, f_vars >>

\* lines 122-139: one iteration of "for label, us in by_label.items()"
SummarizeLabel ==
    /\ t_pc = "summarize"
    /\ t_pos = Len(utterances)
    /\ Cardinality(DOMAIN summary) < Len(label_order)
    /\ LET label == label_order[Cardinality(DOMAIN summary) + 1] IN
         summary' = (label :> summary_entry(by_label[label], max_utterances_per_speaker))
                      @@ summary
    /\ UNCHANGED << t_pc, transcript, max_lines, max_utterances_per_speaker, t_pos, head_lines,
                    utterances, last_label, idx, by_label, label_order, t_exc >>
    /\ UNCHANGED << r_vars, m_vars, l_vars, p_vars, d_vars, w_vars, f_vars >>

\* line 140: return summary
SummarizeReturn ==
    /\ t_pc = "summarize"
    /\ t_pos = Len(utterances)
    /\ Cardinality(DOMAIN summary) = Len(label_order)
    /\ t_pc' = "done"
    /\ UNCHANGED << transcript, max_lines, max_utterances_per_speaker, t_pos, head_lines,
                    utterances, last_label, idx, by_label, label_order, summary, t_exc >>
    /\ UNCHANGED << r_vars, m_vars, l_vars, p_vars, d_vars, w_vars, f_vars >>

NextTranscript ==
    \/ ReadOpen
    \/ ReadLine
    \/ ReadReturn
    \/ ParseLine
    \/ ParseReturn
    \/ GroupUtterance
    \/ SummarizeLabel
    \/ SummarizeReturn

SpecTranscript == InitTranscript /\ [][NextTranscript]_vars

(***************************************************************************)
(* Properties of parse_utterances                                          *)
(***************************************************************************)
\* parse_utterances has returned
Parsed == t_pc \in {"summarize", "done"}

\* the lines parse_utterances has consumed so far
ConsumedLines == IF t_pc = "parsing" THEN SubSeq(head_lines, 1, t_pos) ELSE head_lines

Matches(line) == SPEAKER_LINE_RE(line).matched

RECURSIVE MatchingLines(_)
MatchingLines(lines) ==
    IF lines = << >> THEN << >>
    ELSE (IF Matches(Head(lines)) THEN <<Head(lines)>> ELSE << >>) \o MatchingLines(Tail(lines))

\* C11: for any sequence of input lines the utterances carry the indexes
\* 0..len-1 without gaps, one utterance per matching line and in the order of
\* those lines; a non-matching line yields no utterance, consumes no index and
\* raises nothing.
C11_IndexesContiguousInLineOrder ==
    (t_pc = "parsing" \/ Parsed) =>
        LET ml == MatchingLines(ConsumedLines) IN
          /\ Len(utterances) = Len(ml)
          /\ idx = Len(utterances)
          /\ \A i \in 1..Len(utterances) :
               /\ utterances[i].index = i - 1
               /\ utterances[i].start_time = SPEAKER_LINE_RE(ml[i]).start
               /\ utterances[i].speaker_label = SPEAKER_LINE_RE(ml[i]).label
          /\ t_exc = ""

\* a blank line between two matching lines was parsed: two utterances
C11_Witness ==
    /\ Parsed
    /\ head_lines = <<LineA, LineBlank, LineB>>
    /\ Len(utterances) = 2
    /\ utterances[2].index = 1

\* C12: previous_speaker_label is null for the utterance with index 0 and only
\* for it; for every later utterance it is the label of the utterance before,
\* however many non-matching lines lie between the two.
C12_PreviousLabelChain ==
    \A i \in 1..Len(utterances) :
        utterances[i].previous_speaker_label =
            IF i = 1 THEN JNull ELSE Chars(utterances[i - 1].speaker_label)

\* two utterances separated by a non-matching line
C12_Witness ==
    /\ Parsed
    /\ head_lines = <<LineB, LineAB, LineA>>
    /\ Len(utterances) = 2
    /\ utterances[2].previous_speaker_label = Chars(Label(<<"B">>))

\* the lines of TranscriptLines that follow the grammar
\* [<start> - <end>] <label>: <text> with a label of SPEAKER_ and one or more
\* uppercase letters, each with its start time and its label
GrammarLines ==
    { [line |-> LineA, start |-> Stamp("1"), label |-> Label(<<"A">>)],
      [line |-> LineB, start |-> Stamp("3"), label |-> Label(<<"B">>)],
      [line |-> LineA2, start |-> Stamp("5"), label |-> Label(<<"A">>)],
      [line |-> LineAB, start |-> Stamp("7"), label |-> Label(<<"A", "B">>)] }

\* C13: a line that follows the grammar and whose label is SPEAKER_ followed
\* by one or more uppercase letters (SPEAKER_AB) is parsed into an utterance
\* that carries the full label.
C13_MultiLetterLabelParsed ==
    Parsed =>
        \A i \in 1..Len(head_lines) : \A g \in GrammarLines :
            head_lines[i] = g.line =>
                \E k \in 1..Len(utterances) :
                    /\ utterances[k].start_time = g.start
                    /\ utterances[k].speaker_label = g.label

(***************************************************************************)
(* Properties of read_transcript_head                                      *)
(***************************************************************************)
\* read_transcript_head has returned
HeadRead == t_pc \in {"parsing", "summarize", "done"}

\* the first min(N, file length) lines of the file
FirstLines ==
    SubSeq(transcript.lines, 1,
           IF max_lines < Len(transcript.lines) THEN max_lines ELSE Len(transcript.lines))

\* C14: read_transcript_head with limit N returns exactly the first
\* min(N, file length) lines of the file, in order; the utterances and the
\* summary are those of these lines alone, so nothing derives from a line at
\* position N or later.
C14_OnlyFirstLinesRead ==
    /\ t_pc = "reading" =>
          /\ t_pos <= Len(FirstLines)
          /\ head_lines = SubSeq(transcript.lines, 1, t_pos)
    /\ HeadRead => head_lines = FirstLines
    /\ Parsed => utterances = parse_utterances(FirstLines)
    /\ t_pc = "done" =>
          summary = summarize_observed_speakers(parse_utterances(FirstLines),
                                                max_utterances_per_speaker)

\* a file of three utterances read with limit 2: SPEAKER_B of line 3 is unseen
C14_Witness ==
    /\ t_pc = "done"
    /\ max_lines = 2
    /\ transcript.lines = <<LineA, LineA2, LineB>>
    /\ Len(head_lines) = 2
    /\ DOMAIN summary = { Label(<<"A">>) }

(***************************************************************************)
(* Properties of summarize_observed_speakers                               *)
(***************************************************************************)
RECURSIVE UtterancesOf(_, _)
\* the utterances of us that carry the label, in order
UtterancesOf(label, us) ==
    IF us = << >> THEN << >>
    ELSE (IF Head(us).speaker_label = label THEN <<Head(us)>> ELSE << >>)
           \o UtterancesOf(label, Tail(us))

ObservedLabels == { utterances[i].speaker_label : i \in 1..Len(utterances) }

\* C15: for every label of the summary the examples are exactly the first
\* min(K, num_observed) utterances of that label in transcript order, so there
\* are at most K and at most num_observed of them.
C15_ExamplesArePrefix ==
    \A label \in DOMAIN summary :
        LET us == UtterancesOf(label, utterances)
            ex == summary[label].examples
            k  == max_utterances_per_speaker
        IN /\ Len(ex) = (IF k < Len(us) THEN k ELSE Len(us))
           /\ Len(ex) <= k
           /\ Len(ex) <= summary[label].num_observed
           /\ \A i \in 1..Len(ex) :
                /\ ex[i].index = us[i].index
                /\ ex[i].start = us[i].start_time
                /\ ex[i].end = us[i].end_time
                /\ ex[i].prev_label = us[i].previous_speaker_label
                /\ ex[i].text_snippet = slice_to(us[i].text, SnippetLength)

\* two utterances of SPEAKER_A summarized with K = 1: the first one is kept
C15_Witness ==
    /\ t_pc = "done"
    /\ max_utterances_per_speaker = 1
    /\ Label(<<"A">>) \in DOMAIN summary
    /\ summary[Label(<<"A">>)].num_observed = 2
    /\ Len(summary[Label(<<"A">>)].examples) = 1
    /\ summary[Label(<<"A">>)].examples[1].index = utterances[1].index

RECURSIVE SumObserved(_)
SumObserved(labels) ==
    IF labels = {} THEN 0
    ELSE LET l == CHOOSE x \in labels : TRUE
         IN summary[l].num_observed + SumObserved(labels \ {l})

\* C16: num_observed of a label is the number of utterances with that label,
\* whatever K is; the summary returned has an entry for exactly the labels that
\* occur, and the num_observed values sum to the number of utterances.
C16_NumObservedIsTrueCount ==
    /\ \A label \in DOMAIN summary :
          summary[label].num_observed = Len(UtterancesOf(label, utterances))
    /\ t_pc = "done" =>
          /\ DOMAIN summary = ObservedLabels
          /\ SumObserved(DOMAIN summary) = Len(utterances)

\* three utterances of two labels summarized with K = 0
C16_Witness ==
    /\ t_pc = "done"
    /\ max_utterances_per_speaker = 0
    /\ head_lines = <<LineA, LineB, LineA2>>
    /\ summary[Label(<<"A">>)].num_observed = 2
    /\ summary[Label(<<"B">>)].num_observed = 1

\* C17: for every label of the summary and every cap K >= 0, K = 0 included,
\* first_seen is the start_time of the earliest utterance with that label.
C17_FirstSeenIsEarliestStart ==
    \A label \in DOMAIN summary :
        summary[label].first_seen =
            Chars(UtterancesOf(label, utterances)[1].start_time)

(***************************************************************************)
(* resolve_speakers_from_files                                             *)
(*                                                                         *)
(* One step per statement.  The transcript functions and the merge are the *)
(* operators above; a roster load is one of the outcomes its loader has,   *)
(* with the records of the list as merge_known_speakers reads them.        *)
(***************************************************************************)
\* read_transcript_head on a file that cannot be opened, returning no lines
read_head_or_empty(f, n) ==
    IF ~f.exists THEN Loaded(<< >>) ELSE Loaded(read_transcript_head(f, n))

\* read_transcript_head(path, max_lines): path.open raises, nothing catches it
read_head(f, n) ==
    IF ~f.exists THEN LoadRaised("FileNotFoundError") ELSE Loaded(read_transcript_head(f, n))

\* the transcripts of a resolution run
RunTranscripts ==
    { AbsentTranscript,
      TranscriptOf(<< >>, FALSE),
      TranscriptOf(<<LineA, LineBlank, LineB>>, TRUE) }

\* the lists a speakers file may hold
KnownLists ==
    { << >>,
      << JObj([name |-> Jo, party |-> Majority]) >>,
      << JObj([name |-> Jo, party |-> Majority]), JObj([name |-> JoLoose, party |-> Minority]) >> }

\* the lists a committee roster may hold
MemberLists ==
    { << >>,
      << JObj([name |-> Jo, bioguide |-> D1]) >>,
      << JObj([name |-> Bob, bioguide |-> D1, party |-> Minority]) >> }

\* what load_known_speakers_from_jsonl / load_known_speakers_from_json may do
KnownOutcomes(format) ==
    { Loaded(l) : l \in KnownLists }
      \cup { LoadRaised(e) :
               e \in IF format = "jsonl"
                     THEN {"FileNotFoundError", "AttributeError", "TypeError"}
                     ELSE {"FileNotFoundError", "JSONDecodeError"} }

\* what load_committee_members_from_unitedstates_file may do
MemberOutcomes == { Loaded(l) : l \in MemberLists } \cup { LoadRaised("AttributeError") }

InitPipeline ==
    /\ p_pc = "start"
    /\ p_args \in [transcript : RunTranscripts,
                   max_lines : 0..MaxLimit,
                   max_utterances_per_speaker : 0..MaxCap,
                   speakers_format : {"jsonl", "json"},
                   committee_membership_path : BOOLEAN]
    /\ p_env \in [credential : BOOLEAN, service_up : BOOLEAN]
    /\ calls = << >>
    /\ p_head_lines = << >>
    /\ p_utterances = << >>
    /\ p_summary = EmptyDict
    /\ known = << >>
    /\ members = << >>
    /\ p_requests = 0
    /\ p_mapping = EmptyDict
    /\ p_exc = ""
    /\ ResolverIdle /\ MergeIdle /\ LoaderIdle /\ TranscriptIdle
    /\ DiarizeIdle /\ RewriteIdle /\ FetchIdle

\* line 398: head_lines = read_transcript_head(transcript_path, max_lines=max_lines)
RunReadHead ==
    /\ p_pc = "start"
    /\ LET out == read_head(p_args.transcript, p_args.max_lines) IN
         /\ p_pc' = IF out.kind = "return" THEN "read" ELSE "raised"
         /\ p_head_lines' = out.list
         /\ p_exc' = out.exc
    /\ calls' = Append(calls, "read_transcript_head")
    /\ UNCHANGED << p_args, p_env, p_utterances, p_summary, known, members, p_requests,
                    p_mapping >>
    /\ UNCHANGED << r_vars, m_vars, l_vars, t_vars, d_vars, w_vars, f_vars >>

\* line 399: utterances = parse_utterances(head_lines)
RunParse ==
    /\ p_pc = "read"
    /\ p_utterances' = parse_utterances(p_head_lines)
    /\ p_pc' = "parsed"
    /\ calls' = Append(calls, "parse_utterances")
    /\ UNCHANGED << p_args, p_env, p_head_lines, p_summary, known, members, p_requests,
                    p_mapping, p_exc >>
    /\ UNCHANGED << r_vars, m_vars, l_vars, t_vars, d_vars, w_vars, f_vars >>

\* line 400: summary = summarize_observed_speakers(utterances, ...)
RunSummarize ==
    /\ p_pc = "parsed"
    /\ p_summary' = summarize_observed_speakers(p_utterances, p_args.max_utterances_per_speaker)
    /\ p_pc' = "summarized"
    /\ calls' = Append(calls, "summarize_observed_speakers")
    /\ UNCHANGED << p_args, p_env, p_head_lines, p_utterances, known, members, p_requests,
                    p_mapping, p_exc >>
    /\ UNCHANGED << r_vars, m_vars, l_vars, t_vars, d_vars, w_vars, f_vars >>

\* lines 402-405: known = load_known_speakers_from_jsonl / _from_json (speakers_path)
RunLoadKnown ==
    /\ p_pc = "summarized"
    /\ \E out \in KnownOutcomes(p_args.speakers_format) :
         /\ p_pc' = IF out.kind = "return" THEN "known" ELSE "raised"
         /\ known' = out.list
         /\ p_exc' = out.exc
    /\ calls' = Append(calls, IF p_args.speakers_format = "jsonl"
                              THEN "load_known_speakers_from_jsonl"
                              ELSE "load_known_speakers_from_json")
    /\ UNCHANGED << p_args, p_env, p_head_lines, p_utterances, p_summary, members, p_requests,
                    p_mapping >>
    /\ UNCHANGED << r_vars, m_vars, l_vars, t_vars, d_vars, w_vars, f_vars >>

\* lines 407-411: members = [] or the committee roster
RunLoadMembers ==
    /\ p_pc = "known"
    /\ IF p_args.committee_membership_path
       THEN /\ \E out \in MemberOutcomes :
                 /\ p_pc' = IF out.kind = "return" THEN "members" ELSE "raised"
                 /\ members' = out.list
                 /\ p_exc' = out.exc
            /\ calls' = Append(calls, "load_committee_members_from_unitedstates_file")
       ELSE /\ p_pc' = "members"
            /\ UNCHANGED << members, p_exc, calls >>
    /\ UNCHANGED << p_args, p_env, p_head_lines, p_utterances, p_summary, known, p_requests,
                    p_mapping >>
    /\ UNCHANGED << r_vars, m_vars, l_vars, t_vars, d_vars, w_vars, f_vars >>

\* lines 413-414 with an empty roster answered by the empty mapping, without
\* the inference call
RunMerge_returning_early ==
    /\ p_pc = "members"
    /\ IF members # << >>
       THEN /\ known' = merge_known_speakers(<<known, members>>)
            /\ calls' = Append(calls, "merge_known_speakers")
       ELSE UNCHANGED << known, calls >>
    /\ p_pc' = IF known = << >> /\ members = << >> THEN "returned" ELSE "merged"
    /\ UNCHANGED << p_args, p_env, p_head_lines, p_utterances, p_summary, members, p_requests,
                    p_mapping, p_exc >>
    /\ UNCHANGED << r_vars, m_vars, l_vars, t_vars, d_vars, w_vars, f_vars >>

\* lines 413-414: if members: known = merge_known_speakers(known, members)
RunMerge ==
    /\ p_pc = "members"
    /\ IF members # << >>
       THEN /\ known' = merge_known_speakers(<<known, members>>)
            /\ calls' = Append(calls, "merge_known_speakers")
       ELSE UNCHANGED << known, calls >>
    /\ p_pc' = "merged"
    /\ UNCHANGED << p_args, p_env, p_head_lines, p_utterances, p_summary, members, p_requests,
                    p_mapping, p_exc >>
    /\ UNCHANGED << r_vars, m_vars, l_vars, t_vars, d_vars, w_vars, f_vars >>

\* line 416 into line 320: client = _openai_client(); OpenAI() raises without
\* a credential
RunConstructClient ==
    /\ p_pc = "merged"
    /\ IF p_env.credential
       THEN p_pc' = "client" /\ p_exc' = p_exc
       ELSE p_pc' = "raised" /\ p_exc' = "OpenAIError"
    /\ calls' = Append(calls, "_openai_client")
    /\ UNCHANGED << p_args, p_env, p_head_lines, p_utterances, p_summary, known, members,
                    p_requests, p_mapping >>
    /\ UNCHANGED << r_vars, m_vars, l_vars, t_vars, d_vars, w_vars, f_vars >>

\* line 416 into lines 325-344, and line 423: the request, the extraction and
\* the parse of resolve_speakers_via_llm; return mapping
RunRequest ==
    /\ p_pc = "client"
    /\ p_requests' = p_requests + 1
    /\ calls' = Append(calls, "client.responses.create")
    /\ IF p_env.service_up
       THEN \E r \in Responses :
              LET out == parse_mapping(coalesce_response_text(r)) IN
                /\ p_pc' = IF out.kind = "return" THEN "returned" ELSE "raised"
                /\ p_mapping' = out.mapping
                /\ p_exc' = out.exc
       ELSE p_pc' = "raised" /\ p_exc' = "APIError" /\ p_mapping' = p_mapping
    /\ UNCHANGED << p_args, p_env, p_head_lines, p_utterances, p_summary, known, members >>
    /\ UNCHANGED << r_vars, m_vars, l_vars, t_vars, d_vars, w_vars, f_vars >>

NextPipeline ==
    \/ RunReadHead
    \/ RunParse
    \/ RunSummarize
    \/ RunLoadKnown
    \/ RunLoadMembers
    \/ RunMerge
    \/ RunConstructClient
    \/ RunRequest

SpecPipeline == InitPipeline /\ [][NextPipeline]_vars

(***************************************************************************)
(* Properties of resolve_speakers_from_files                               *)
(***************************************************************************)
PipelineDone == p_pc \in {"returned", "raised"}

\* the calls that read the transcript, load a roster or merge
WorkCalls ==
    { "read_transcript_head", "parse_utterances", "summarize_observed_speakers",
      "load_known_speakers_from_jsonl", "load_known_speakers_from_json",
      "load_committee_members_from_unitedstates_file", "merge_known_speakers" }

RosterCalls ==
    { "load_known_speakers_from_jsonl", "load_known_speakers_from_json",
      "load_committee_members_from_unitedstates_file", "merge_known_speakers" }

Called(names) == \E i \in 1..Len(calls) : calls[i] \in names

\* C18: without a credential for the inference service the run fails with the
\* configuration error before any work: no transcript read, roster load or
\* merge happens before the error is raised.
C18_MissingCredentialFailsBeforeAnyWork ==
    ~p_env.credential =>
        /\ ~Called(WorkCalls)
        /\ PipelineDone => (p_pc = "raised" /\ p_exc = "OpenAIError")

\* C19: if the transcript cannot be opened the run aborts with the file-access
\* error: no roster is loaded, no inference request is issued and no mapping
\* is returned.
C19_UnopenableTranscriptAborts ==
    ~p_args.transcript.exists =>
        /\ p_pc \in {"start", "raised"}
        /\ p_pc = "raised" => p_exc = "FileNotFoundError"
        /\ ~Called(RosterCalls \cup {"_openai_client", "client.responses.create"})
        /\ p_requests = 0
        /\ p_mapping = EmptyDict

\* the run with a credential and a committee roster named, aborted at the
\* transcript
C19_Witness ==
    /\ ~p_args.transcript.exists
    /\ p_args.committee_membership_path
    /\ p_env.credential /\ p_env.service_up
    /\ p_pc = "raised"
    /\ p_exc = "FileNotFoundError"
    /\ calls = <<"read_transcript_head">>

\* the rosters were loaded and the run has come to the inference call or past it
RostersLoaded ==
    /\ p_pc \in {"merged", "client", "returned", "raised"}
    /\ p_pc = "raised" => calls[Len(calls)] \in {"_openai_client", "client.responses.create"}

\* C22: when the speakers file loads to an empty list and the committee source
\* is absent or yields no members, the run goes on to the inference call with
\* the empty known-speaker list: nothing is merged, a run that constructed
\* its client issues the request, and a run returns only what the request
\* yielded.
C22_EmptyRosterStillCallsInference ==
    (RostersLoaded /\ known = << >> /\ members = << >>) =>
        /\ ~Called({"merge_known_speakers"})
        /\ PipelineDone => Called({"_openai_client"})
        /\ (PipelineDone /\ p_env.credential) =>
              (p_requests = 1 /\ Called({"client.responses.create"}))
        /\ p_pc = "returned" => p_requests = 1

\* the committee roster was named and held no member, the speakers file was
\* empty, and the run returned the mapping the service sent
C22_Witness ==
    /\ p_pc = "returned"
    /\ p_args.committee_membership_path
    /\ known = << >> /\ members = << >>
    /\ p_requests = 1
    /\ p_mapping # EmptyDict

\* C23: the known-speaker list handed to the inference call holds no two
\* records with the same identity key, whatever the speakers file holds and
\* also when no committee file is given or it yields no members.
C23_KnownHandedOverHasDistinctKeys ==
    Called({"_openai_client"}) =>
        \A i, j \in 1..Len(known) :
            i # j => key_for(known[i].o) # key_for(known[j].o)

(***************************************************************************)
(* assemblyai_diarization.py: the turns diarize_audio_file builds from the *)
(* transcript object of the transcription service, and the lines the main  *)
(* block writes for them                                                   *)
(***************************************************************************)
DecimalDigits == <<"0", "1", "2", "3", "4", "5", "6", "7", "8", "9">>

\* the decimal digits of a natural number, as str() and format() write them
RECURSIVE decimal(_)
decimal(n) ==
    IF n < 10 THEN << DecimalDigits[n + 1] >>
    ELSE decimal(n \div 10) \o << DecimalDigits[(n % 10) + 1] >>

\* format(n, "02d"): zero-padded to a width of at least two
format_02d(n) == IF n < 10 THEN <<"0">> \o decimal(n) ELSE decimal(n)

\* _format_ms()
format_ms(ms) ==
    LET s == IF ms \div 1000 > 0 THEN ms \div 1000 ELSE 0
        hh == s \div 3600
        mm == (s % 3600) \div 60
        ss == s % 60
    IN format_02d(hh) \o <<":">> \o format_02d(mm) \o <<":">> \o format_02d(ss)

\* int(x or 0) of a time attribute that may be None or missing
int_or_zero(v) == IF truthy(v) THEN v.n ELSE 0

\* str(x) inside an f-string, of a speaker id that may be None
str_of(v) == IF v = JNull THEN <<"N", "o", "n", "e">> ELSE v.cs

SpeakerTurn(speaker, start_ms, end_ms, text) ==
    [speaker |-> speaker, start_ms |-> start_ms, end_ms |-> end_ms, text |-> text]

\* the body of "for utt in transcript.utterances"
utterance_turn(utt) ==
    SpeakerTurn(Label(str_of(utt.speaker)), int_or_zero(utt.start), int_or_zero(utt.end),
                utt.text.cs)

\* " ".join(texts)
RECURSIVE join_blank(_)
join_blank(texts) ==
    IF texts = << >> THEN << >>
    ELSE IF Len(texts) = 1 THEN Head(texts)
    ELSE Head(texts) \o <<" ">> \o join_blank(Tail(texts))

NoCurrent ==
    [current_speaker |-> JNull, current_text |-> << >>, current_start |-> JNull,
     current_end |-> JNull]

\* the SpeakerTurn built from current_speaker, current_text, current_start, current_end
closed_turn(cur) ==
    SpeakerTurn(cur.current_speaker.cs,
                int_or_zero(cur.current_start),
                IF truthy(cur.current_end) THEN cur.current_end.n
                ELSE int_or_zero(cur.current_start),
                strip(join_blank(cur.current_text)))

\* the speaker label of a word
word_speaker(w) == IF w.speaker # JNull THEN Label(w.speaker.cs) ELSE Label(<<"?">>)

\* an iteration that leaves current_end at the end of the turn's first word
word_step_keeping_end(cur, w) ==
    LET speaker == word_speaker(w)
        opened == [current_speaker |-> Chars(speaker), current_text |-> << w.text.cs >>,
                   current_start |-> JNum(int_or_zero(w.start)),
                   current_end |-> JNum(int_or_zero(w.end))]
    IN IF cur.current_speaker = JNull THEN [current |-> opened, appended |-> << >>]
       ELSE IF Chars(speaker) = cur.current_speaker
       THEN [current |-> [cur EXCEPT !.current_text = Append(@, w.text.cs)],
             appended |-> << >>]
       ELSE [current |-> opened, appended |-> << closed_turn(cur) >>]

\* one iteration of "for w in transcript.words": the new current_* values and the
\* turns appended
word_step(cur, w) ==
    LET speaker == word_speaker(w)
        start == JNum(int_or_zero(w.start))
        end == JNum(int_or_zero(w.end))
        opened == [current_speaker |-> Chars(speaker), current_text |-> << w.text.cs >>,
                   current_start |-> start, current_end |-> end]
    IN IF cur.current_speaker = JNull THEN [current |-> opened, appended |-> << >>]
       ELSE IF Chars(speaker) = cur.current_speaker
       THEN [current |-> [cur EXCEPT !.current_text = Append(@, w.text.cs),
                                     !.current_end = end],
             appended |-> << >>]
       ELSE [current |-> opened, appended |-> << closed_turn(cur) >>]

\* the line the main block appends for a turn
output_line(t) ==
    <<"[">> \o format_ms(t.start_ms) \o <<" ", "-", " ">> \o format_ms(t.end_ms)
        \o <<"]", " ">> \o t.speaker \o <<":", " ">> \o t.text

MaxItems == 3

\* the default of max_lines
DefaultMaxLines == 300

Item(speaker, start, end, text) ==
    [speaker |-> speaker, start |-> start, end |-> end, text |-> Chars(text)]

\* a hundred hours, in milliseconds
HundredHours == 100 * 3600 * 1000

\* utterances and words as the service reports them: speaker ids of one and of two
\* letters, a word without a speaker, a word without an end time, a start time of a
\* hundred hours
Items ==
    { Item(Chars(<<"A">>), JNum(1000), JNum(2000), <<"h", "i">>),
      Item(Chars(<<"A">>), JNum(HundredHours), JNum(HundredHours + 1000), <<"y", "o">>),
      Item(Chars(<<"B">>), JNum(5000), JNull, <<"o", "k">>),
      Item(JNull, JNum(0), JNum(1000), <<"u", "h">>),
      Item(Chars(<<"A", "B">>), JNum(7000), JNum(8000), <<"x">>),
      Item(Chars(<<"B">>), JNum(61000), JNum(3723000), << >>) }

ItemLists == UNION { [1..n -> Items] : n \in 0..MaxItems }

InitDiarize ==
    /\ d_pc = "built"
    /\ \E us \in ItemLists, ws \in ItemLists :
         /\ us = << >> \/ ws = << >>
         /\ aai_transcript = [utterances |-> us, words |-> ws]
    /\ d_pos = 0 /\ current = NoCurrent /\ turns = << >> /\ out_lines = << >>
    /\ output_text = AbsentTranscript
    /\ ResolverIdle /\ MergeIdle /\ LoaderIdle /\ TranscriptIdle /\ PipelineIdle
    /\ RewriteIdle /\ FetchIdle

\* lines 137 and 147: which of the two lists is walked
ChooseList ==
    /\ d_pc = "built"
    /\ d_pc' = IF aai_transcript.utterances # << >> THEN "utterances"
               ELSE IF aai_transcript.words # << >> THEN "words" ELSE "returned"
    /\ UNCHANGED << aai_transcript, d_pos, current, turns, out_lines, output_text >>
    /\ UNCHANGED << r_vars, m_vars, l_vars, t_vars, p_vars, w_vars, f_vars >>

UtteranceTurn ==
    /\ d_pc = "utterances" /\ d_pos < Len(aai_transcript.utterances)
    /\ turns' = Append(turns, utterance_turn(aai_transcript.utterances[d_pos + 1]))
    /\ d_pos' = d_pos + 1
    /\ UNCHANGED << d_pc, aai_transcript, current, out_lines, output_text >>
    /\ UNCHANGED << r_vars, m_vars, l_vars, t_vars, p_vars, w_vars, f_vars >>

UtterancesReturn ==
    /\ d_pc = "utterances" /\ d_pos = Len(aai_transcript.utterances)
    /\ d_pc' = "returned" /\ d_pos' = 0
    /\ UNCHANGED << aai_transcript, current, turns, out_lines, output_text >>
    /\ UNCHANGED << r_vars, m_vars, l_vars, t_vars, p_vars, w_vars, f_vars >>

WordStep ==
    /\ d_pc = "words" /\ d_pos < Len(aai_transcript.words)
    /\ LET st == word_step(current, aai_transcript.words[d_pos + 1])
       IN /\ current' = st.current
          /\ turns' = turns \o st.appended
    /\ d_pos' = d_pos + 1
    /\ UNCHANGED << d_pc, aai_transcript, out_lines, output_text >>
    /\ UNCHANGED << r_vars, m_vars, l_vars, t_vars, p_vars, w_vars, f_vars >>

\* after the loop: the open turn is appended and the turns are returned
WordsReturn ==
    /\ d_pc = "words" /\ d_pos = Len(aai_transcript.words)
    /\ turns' = IF current.current_speaker # JNull THEN Append(turns, closed_turn(current))
                ELSE turns
    /\ d_pc' = "returned" /\ d_pos' = 0
    /\ UNCHANGED << aai_transcript, current, out_lines, output_text >>
    /\ UNCHANGED << r_vars, m_vars, l_vars, t_vars, p_vars, w_vars, f_vars >>

\* main: "for t in turns: lines.append(...)"
AppendLine ==
    /\ d_pc = "returned" /\ d_pos < Len(turns)
    /\ out_lines' = Append(out_lines, output_line(turns[d_pos + 1]))
    /\ d_pos' = d_pos + 1
    /\ UNCHANGED << d_pc, aai_transcript, current, turns, output_text >>
    /\ UNCHANGED << r_vars, m_vars, l_vars, t_vars, p_vars, w_vars, f_vars >>

\* main: the lines joined by "\n" are written to the output file
WriteOutput ==
    /\ d_pc = "returned" /\ d_pos = Len(turns)
    /\ output_text' = TranscriptOf(out_lines, FALSE)
    /\ d_pc' = "written"
    /\ UNCHANGED << aai_transcript, d_pos, current, turns, out_lines >>
    /\ UNCHANGED << r_vars, m_vars, l_vars, t_vars, p_vars, w_vars, f_vars >>

NextDiarize ==
    \/ ChooseList \/ UtteranceTurn \/ UtterancesReturn \/ WordStep \/ WordsReturn
    \/ AppendLine \/ WriteOutput

SpecDiarize == InitDiarize /\ [][NextDiarize]_vars

\* the utterances the resolver parses from the written transcript
ParsedFromOutput ==
    parse_utterances(read_transcript_head(output_text, DefaultMaxLines))

\* C24: once the transcript is written, parse_utterances applied to it yields exactly
\* one utterance per turn, in order, each with the speaker label of its turn
C24_EveryWrittenTurnIsParsed ==
    d_pc = "written" =>
        /\ Len(ParsedFromOutput) = Len(turns)
        /\ \A i \in 1..Len(turns) :
             i <= Len(ParsedFromOutput) =>
                 ParsedFromOutput[i].speaker_label = turns[i].speaker

\* the word fallback has run to its return
WordsWalked == d_pc \in {"returned", "written"} /\ aai_transcript.utterances = << >>

\* the positions in transcript.words where the speaker label changes, the first included
RunStarts ==
    LET ws == aai_transcript.words
    IN { i \in 1..Len(ws) : i = 1 \/ word_speaker(ws[i]) # word_speaker(ws[i - 1]) }

\* first and last position of the k-th run of words with one speaker label
RunStart(k) == CHOOSE s \in RunStarts : Cardinality({ x \in RunStarts : x < s }) = k - 1
RunEnd(k) ==
    IF k = Cardinality(RunStarts) THEN Len(aai_transcript.words) ELSE RunStart(k + 1) - 1

\* the texts of the words of the k-th run, in order
RunTexts(k) ==
    [ i \in 1..(RunEnd(k) - RunStart(k) + 1) |-> aai_transcript.words[RunStart(k) + i - 1].text.cs ]

\* the turns are the runs, in order: one turn per run, with the run's label, its words'
\* texts joined, and the start of its first word
TurnsAreRuns ==
    /\ Len(turns) = Cardinality(RunStarts)
    /\ \A k \in 1..Len(turns) :
         /\ k > 1 => turns[k].speaker # turns[k - 1].speaker
         /\ k <= Cardinality(RunStarts) =>
              /\ turns[k].speaker = word_speaker(aai_transcript.words[RunStart(k)])
              /\ turns[k].text = strip(join_blank(RunTexts(k)))
              /\ turns[k].start_ms = int_or_zero(aai_transcript.words[RunStart(k)].start)

\* the end time the last word of the k-th run carries, 0 when it carries none
LastWordEnd(k) == int_or_zero(aai_transcript.words[RunEnd(k)].end)

\* C26 as stated: the returned turns partition the words in order, and each turn ends
\* at the end of its last word
C26_TurnsPartitionWords ==
    WordsWalked =>
        /\ TurnsAreRuns
        /\ \A k \in 1..Len(turns) :
             k <= Cardinality(RunStarts) => turns[k].end_ms = LastWordEnd(k)

\* C26, amended: the returned turns partition the words in order, and each turn ends at
\* the end of its last word, or at its own start when that word carries no end (or 0)
C26_TurnsPartitionWordsEndOrStart ==
    WordsWalked =>
        /\ TurnsAreRuns
        /\ \A k \in 1..Len(turns) :
             k <= Cardinality(RunStarts) =>
                 turns[k].end_ms = IF LastWordEnd(k) # 0 THEN LastWordEnd(k)
                                   ELSE turns[k].start_ms

\* three words in two turns, the last word of a turn without an end time
C26_Witness ==
    /\ WordsWalked /\ Len(aai_transcript.words) = 3 /\ Len(turns) = 2
    /\ \E k \in 1..2 : LastWordEnd(k) = 0 /\ turns[k].start_ms # 0

(***************************************************************************)
(* rewrite_transcript_entities.py: load_speaker_mapping and                *)
(* rewrite_transcript as main runs them                                    *)
(***************************************************************************)
\* the value load_speaker_mapping returns, or the exception that leaves it
MappingLoaded(mapping) == [exc |-> "", mapping |-> mapping]
MappingRaised(exc) == [exc |-> exc, mapping |-> EmptyDict]

\* isinstance(name, str) and name.strip()
non_blank_name(info) ==
    /\ IsDict(info)
    /\ "name" \in DOMAIN info.o
    /\ info.o["name"].t = "chars"
    /\ strip(info.o["name"].cs) # << >>

\* load_speaker_mapping() on the parsed document
load_speaker_mapping(data) ==
    LET mapping_obj == IF IsDict(data)
                       THEN IF "mapping" \in DOMAIN data.o THEN data.o["mapping"]
                            ELSE JObj(EmptyDict)
                       ELSE JObj(EmptyDict)
    IN IF ~IsDict(mapping_obj) THEN MappingRaised("AttributeError")
       ELSE MappingLoaded([ label \in { l \in DOMAIN mapping_obj.o : non_blank_name(mapping_obj.o[l]) }
                              |-> strip(mapping_obj.o[label].o["name"].cs) ])

\* determine_role()
determine_role(name, witnesses, committee_members) ==
    IF name \in witnesses THEN "Witness"
    ELSE IF name \in committee_members THEN "Committee"
    ELSE "Other"

Unknown == <<"u", "n", "k", "n", "o", "w", "n">>

RoleText(role) ==
    IF role = "Witness" THEN <<" ", "(", "W", "i", "t", "n", "e", "s", "s", ")">>
    ELSE <<" ", "(", "C", "o", "m", "m", "i", "t", "t", "e", "e", ")">>

\* replace_label(): the text that replaces a matched label
replace_label(a, mapping, label) ==
    IF label \notin DOMAIN mapping THEN label
    ELSE LET name == mapping[label]
             role == determine_role(name, a.witnesses, a.committee_members)
         IN IF name = << >> \/ lower(name) = Unknown THEN label
            ELSE IF a.annotate_role /\ role \in {"Witness", "Committee"}
            THEN name \o RoleText(role)
            ELSE name

\* the characters of the model's alphabet that \b does not count as word characters
NonWord == {"", " ", "\t", "\n", "\r", ":", "?", "(", ")", "[", "]", "-"}

\* [A-Z]+ from position i: the number of capital letters
RECURSIVE capitals_from(_, _)
capitals_from(cs, i) == IF char_at(cs, i) \in Upper THEN 1 + capitals_from(cs, i + 1) ELSE 0

\* \bSPEAKER_[A-Z]+\b at position i: the length of the match, 0 when there is none
label_match(cs, i) ==
    LET n == capitals_from(cs, i + 8)
    IN IF /\ char_at(cs, i - 1) \in NonWord
          /\ literal_at(cs, i, Label(<< >>))
          /\ n >= 1
          /\ char_at(cs, i + 8 + n) \in NonWord
       THEN 8 + n ELSE 0

\* pattern.sub(replace_label, line) from position i
RECURSIVE pattern_sub(_, _, _, _)
pattern_sub(a, mapping, line, i) ==
    IF i > Len(line) THEN << >>
    ELSE LET n == label_match(line, i)
         IN IF n > 0
            THEN replace_label(a, mapping, SubSeq(line, i, i + n - 1))
                     \o pattern_sub(a, mapping, line, i + n)
            ELSE << line[i] >> \o pattern_sub(a, mapping, line, i + 1)

\* reading in text mode: "\r\n" and "\r" arrive as "\n"
RECURSIVE universal_newlines(_)
universal_newlines(cs) ==
    IF cs = << >> THEN << >>
    ELSE IF Head(cs) = "\r"
    THEN <<"\n">> \o universal_newlines(IF Len(cs) > 1 /\ cs[2] = "\n" THEN SubSeq(cs, 3, Len(cs))
                                         ELSE Tail(cs))
    ELSE << Head(cs) >> \o universal_newlines(Tail(cs))

\* the lines "for line in fin" yields, each with its "\n"
RECURSIVE file_lines(_, _)
file_lines(cs, line) ==
    IF cs = << >> THEN IF line = << >> THEN << >> ELSE << line >>
    ELSE IF Head(cs) = "\n" THEN << Append(line, "\n") >> \o file_lines(Tail(cs), << >>)
    ELSE file_lines(Tail(cs), Append(line, Head(cs)))

\* writing in text mode: "\n" leaves as os.linesep
RECURSIVE written(_, _)
written(cs, linesep) ==
    IF cs = << >> THEN << >>
    ELSE (IF Head(cs) = "\n" THEN linesep ELSE << Head(cs) >>) \o written(Tail(cs), linesep)

MaxSegments == 3

LabelSegment(letters) == [label |-> TRUE, cs |-> Label(letters)]
TextSegment(cs) == [label |-> FALSE, cs |-> cs]

\* the pieces transcripts are made of: labels of one and of two letters, and text that
\* begins and ends outside a word, one of them holding SPEAKER_A inside a longer word
Segments ==
    { LabelSegment(<<"A">>), LabelSegment(<<"B">>), LabelSegment(<<"A", "B">>),
      TextSegment(<<":", " ", "h", "i", " ">>),
      TextSegment(<<"\n">>),
      TextSegment(<<"\r", "\n">>),
      TextSegment(<<" ">> \o Label(<<"A", "1">>) \o <<" ">>) }

\* transcripts in which no label touches another one
SegmentLists ==
    { ss \in UNION { [1..n -> Segments] : n \in 0..MaxSegments } :
        \A i \in 1..(Len(ss) - 1) : ~(ss[i].label /\ ss[i + 1].label) }

RECURSIVE text_of(_)
text_of(ss) == IF ss = << >> THEN << >> ELSE Head(ss).cs \o text_of(Tail(ss))

NameInfo(v) == JObj("name" :> v)
MappingDocument(mapping_obj) == JObj("mapping" :> mapping_obj)

SpeakerJo == <<"J", "o">>
SpeakerAl == <<"A", "l">>

\* mapping files: names to put in, names to strip, Unknown in two spellings, entries
\* without a usable name, a document without mapping and one whose mapping is a list
MappingDocuments ==
    { MappingDocument(JObj(Label(<<"A">>) :> NameInfo(Chars(SpeakerJo))
                           @@ Label(<<"B">>) :> NameInfo(Chars(<<"U", "n", "k", "n", "o", "w", "n">>)))),
      MappingDocument(JObj(Label(<<"A">>) :> NameInfo(Chars(<<" ">> \o SpeakerAl \o <<" ">>))
                           @@ Label(<<"A", "B">>) :> NameInfo(Chars(<<"U", "N", "K", "N", "O", "W", "N">>))
                           @@ Label(<<"B">>) :> NameInfo(Chars(SpeakerJo)))),
      MappingDocument(JObj(Label(<<"A">>) :> NameInfo(Chars(<<" ">>))
                           @@ Label(<<"B">>) :> JNull
                           @@ Label(<<"A", "B">>) :> NameInfo(JNum(1)))),
      JObj(EmptyDict),
      MappingDocument(JArr(<< >>)) }

\* the platform's os.linesep, and whether --out names the transcript itself
LineFeed == <<"\n">>
Platforms ==
    { [linesep |-> LineFeed, in_place |-> FALSE],
      [linesep |-> <<"\r", "\n">>, in_place |-> FALSE],
      [linesep |-> LineFeed, in_place |-> TRUE] }

InitRewrite ==
    /\ w_pc = "start"
    /\ \E ss \in SegmentLists, doc \in MappingDocuments, annotate \in BOOLEAN,
          wit \in {{}, {SpeakerJo}}, plat \in Platforms :
         w_args = [transcript |-> ss, mapping |-> doc, witnesses |-> wit,
                   committee_members |-> {SpeakerJo, SpeakerAl}, annotate_role |-> annotate,
                   linesep |-> plat.linesep, in_place |-> plat.in_place]
    /\ label_to_name = EmptyDict /\ fin = << >> /\ w_pos = 0 /\ fout = << >> /\ w_exc = ""
    /\ ResolverIdle /\ MergeIdle /\ LoaderIdle /\ TranscriptIdle /\ PipelineIdle
    /\ DiarizeIdle /\ FetchIdle

\* main: label_to_name = load_speaker_mapping(args.mapping)
LoadMapping ==
    /\ w_pc = "start"
    /\ LET out == load_speaker_mapping(w_args.mapping)
       IN /\ label_to_name' = out.mapping
          /\ w_exc' = out.exc
          /\ w_pc' = IF out.exc = "" THEN "loaded" ELSE "raised"
    /\ UNCHANGED << w_args, fin, w_pos, fout >>
    /\ UNCHANGED << r_vars, m_vars, l_vars, t_vars, p_vars, d_vars, f_vars >>

\* rewrite_transcript: both files are opened; opening the output truncates it, and
\* with it the transcript when the two are one file
OpenFiles ==
    /\ w_pc = "loaded"
    /\ fin' = IF w_args.in_place THEN << >>
              ELSE file_lines(universal_newlines(text_of(w_args.transcript)), << >>)
    /\ w_pc' = "open"
    /\ UNCHANGED << w_args, label_to_name, w_pos, fout, w_exc >>
    /\ UNCHANGED << r_vars, m_vars, l_vars, t_vars, p_vars, d_vars, f_vars >>

\* one iteration of "for line in fin"
RewriteLine ==
    /\ w_pc = "open" /\ w_pos < Len(fin)
    /\ fout' = fout \o written(pattern_sub(w_args, label_to_name, fin[w_pos + 1], 1),
                               w_args.linesep)
    /\ w_pos' = w_pos + 1
    /\ UNCHANGED << w_pc, w_args, label_to_name, fin, w_exc >>
    /\ UNCHANGED << r_vars, m_vars, l_vars, t_vars, p_vars, d_vars, f_vars >>

\* the with block is left and rewrite_transcript returns
CloseFiles ==
    /\ w_pc = "open" /\ w_pos = Len(fin)
    /\ w_pc' = "done"
    /\ UNCHANGED << w_args, label_to_name, fin, w_pos, fout, w_exc >>
    /\ UNCHANGED << r_vars, m_vars, l_vars, t_vars, p_vars, d_vars, f_vars >>

NextRewrite == LoadMapping \/ OpenFiles \/ RewriteLine \/ CloseFiles

SpecRewrite == InitRewrite /\ [][NextRewrite]_vars

\* what the stated rule puts in the place of a piece of the transcript
RuleImage(seg) ==
    IF ~seg.label THEN seg.cs
    ELSE IF seg.cs \notin DOMAIN label_to_name THEN seg.cs
    ELSE LET name == label_to_name[seg.cs]
         IN IF lower(name) = Unknown THEN seg.cs
            ELSE IF w_args.annotate_role /\ name \in w_args.witnesses
            THEN name \o RoleText("Witness")
            ELSE IF w_args.annotate_role /\ name \in w_args.committee_members
            THEN name \o RoleText("Committee")
            ELSE name

RECURSIVE RuleText(_)
RuleText(ss) == IF ss = << >> THEN << >> ELSE RuleImage(Head(ss)) \o RuleText(Tail(ss))

\* C25: the output file holds the transcript with every label that is mapped to a name
\* other than Unknown replaced by that name (and its role), and everything else as it was
C25_LabelsReplacedRestUnchanged ==
    w_pc = "done" => fout = RuleText(w_args.transcript)

(***************************************************************************)
(* fetch_committee_members.py: fetch_committee_members and the three       *)
(* remote sources it consults                                              *)
(***************************************************************************)
\* what a source answers: requests.get (or resp.json) raises, or a status and a document
Answer(status, data) == [raises |-> FALSE, status |-> status, data |-> data]
NoAnswer == NoSource

\* the arguments of the call
CommitteeId == "hsag"
Chamber == "house"
Congress == 119

\* committee_id.strip().upper() and normalize_committee_code() of the argument
committee_key_upper(committee_id) == IF committee_id = "hsag" THEN "HSAG" ELSE committee_id
normalize_committee_code(committee_id) ==
    IF committee_id \in {"hsag", "HSAG"} THEN "hsag00" ELSE committee_id

\* the members of a one-entry mapping bioguide -> role
bioguide_rows(committee) ==
    LET bioguide == CHOOSE b \in DOMAIN committee : TRUE
        role == committee[bioguide]
        row == "bioguide" :> JStr(bioguide)
    IN << JObj(IF IsDict(role) THEN role.o @@ row
               ELSE IF role.t = "str" THEN ("role" :> role) @@ row
               ELSE row) >>

\* fetch_members_from_unitedstates(): every failure is answered by the empty list
fetch_members_from_unitedstates(answer, committee_id) ==
    IF answer.raises \/ answer.status # 200 THEN << >>
    ELSE IF ~IsDict(answer.data) THEN << >>
    ELSE LET committee == dict_get(answer.data.o, committee_key_upper(committee_id))
         IN IF ~Truthy(committee) THEN << >>
            ELSE IF IsDict(committee) THEN bioguide_rows(committee.o)
            ELSE IF committee.t = "arr" THEN SelectSeq(committee.a, IsDict)
            ELSE << >>

\* _http_get(): the document, or the exception raised
http_get(answer) ==
    IF answer.raises THEN [exc |-> "RequestException", data |-> JNull]
    ELSE IF answer.status # 200 THEN [exc |-> "RuntimeError", data |-> JNull]
    ELSE [exc |-> "", data |-> answer.data]

\* _extract_members()
RECURSIVE extract_members(_)
extract_members(payload) ==
    IF ~IsDict(payload) THEN << >>
    ELSE LET has(k) == k \in DOMAIN payload.o
             m == payload.o["members"]
         IN IF has("members") /\ m.t = "arr" THEN m.a
            ELSE IF has("members") /\ IsDict(m) /\ "item" \in DOMAIN m.o /\ m.o["item"].t = "arr"
            THEN m.o["item"].a
            ELSE IF has("members") /\ IsDict(m) /\ "members" \in DOMAIN m.o
                    /\ m.o["members"].t = "arr"
            THEN m.o["members"].a
            ELSE IF has("member") /\ payload.o["member"].t = "arr" THEN payload.o["member"].a
            ELSE IF has("committee") /\ IsDict(payload.o["committee"])
            THEN extract_members(payload.o["committee"])
            ELSE << >>

\* m.setdefault(k, v)
setdefault(o, k, v) == IF k \in DOMAIN o THEN o ELSE (k :> v) @@ o

\* the four setdefault calls on one member
with_defaults(m, committee_id, source) ==
    JObj(setdefault(setdefault(setdefault(setdefault(m.o, "committee_id", JStr(committee_id)),
                                          "chamber", JStr(Chamber)),
                               "congress", JNum(Congress)),
                    "source", JStr(source)))

\* "for m in members: m.setdefault(...)": the list, or the AttributeError of a member
\* that is no dict
apply_defaults(ms, committee_id, source) ==
    IF \E i \in 1..Len(ms) : ~IsDict(ms[i]) THEN [exc |-> "AttributeError", members |-> << >>]
    ELSE [exc |-> "", members |-> [ i \in 1..Len(ms) |-> with_defaults(ms[i], committee_id, source) ]]

\* a Congress.gov endpoint queried and its members given their defaults
query(answer, committee_id, source) ==
    LET got == http_get(answer)
    IN IF got.exc # "" THEN [exc |-> got.exc, members |-> << >>]
       ELSE apply_defaults(extract_members(got.data), committee_id, source)

MemberD1 == JObj("bioguideId" :> JStr("D1"))
MemberD2 == JObj("bioguideId" :> JStr("D2") @@ "source" :> JStr("given"))

\* what theunitedstates.io may answer
UnitedStatesAnswers ==
    { NoAnswer,
      Answer(500, JNull),
      Answer(200, JObj("HSAG" :> JArr(<< MemberD1, JStr("x") >>))),
      Answer(200, JObj("HSAG" :> JObj("D1" :> JObj("rank" :> JNum(1))))),
      Answer(200, JObj("HSAG" :> JObj("D2" :> JStr("Chair")))),
      Answer(200, JObj("HSAG" :> JArr(<< >>))),
      Answer(200, JObj("HSAG" :> JStr("x"))),
      Answer(200, JObj(EmptyDict)),
      Answer(200, JArr(<< >>)) }

\* what a Congress.gov endpoint may answer
CongressAnswers ==
    { NoAnswer,
      Answer(404, JNull),
      Answer(200, JObj("members" :> JArr(<< MemberD1 >>))),
      Answer(200, JObj("members" :> JArr(<< >>))),
      Answer(200, JObj("members" :> JObj("item" :> JArr(<< MemberD2 >>)))),
      Answer(200, JObj("committee" :> JObj("members" :> JArr(<< MemberD1, MemberD2 >>)))),
      Answer(200, JObj("member" :> JArr(<< MemberD1 >>))),
      Answer(200, JObj("members" :> JArr(<< MemberD1, JStr("x") >>))),
      Answer(200, JArr(<< >>)) }

InitFetch ==
    /\ f_pc = "start"
    /\ \E us \in UnitedStatesAnswers, ms \in CongressAnswers, it \in CongressAnswers :
         f_sources = [unitedstates |-> us, members |-> ms, item |-> it]
    /\ f_calls = << >> /\ f_result = << >> /\ f_exc = ""
    /\ ResolverIdle /\ MergeIdle /\ LoaderIdle /\ TranscriptIdle /\ PipelineIdle
    /\ DiarizeIdle /\ RewriteIdle

\* lines 139-147: the primary source
FetchUnitedStates ==
    /\ f_pc = "start"
    /\ f_calls' = Append(f_calls, "unitedstates")
    /\ LET us_members == fetch_members_from_unitedstates(f_sources.unitedstates, CommitteeId)
       IN IF us_members # << >>
          THEN /\ f_result' = apply_defaults(us_members, committee_key_upper(CommitteeId),
                                             "unitedstates").members
               /\ f_pc' = "returned"
          ELSE /\ f_result' = f_result
               /\ f_pc' = "members"
    /\ UNCHANGED << f_sources, f_exc >>
    /\ UNCHANGED << r_vars, m_vars, l_vars, t_vars, p_vars, d_vars, w_vars >>

\* the members endpoint with its exceptions leaving fetch_committee_members
FetchMembers_uncaught ==
    /\ f_pc = "members"
    /\ f_calls' = Append(f_calls, "members")
    /\ LET out == query(f_sources.members, normalize_committee_code(CommitteeId), "members")
       IN IF out.exc # ""
          THEN f_result' = f_result /\ f_exc' = out.exc /\ f_pc' = "raised"
          ELSE IF out.members # << >>
          THEN f_result' = out.members /\ f_exc' = f_exc /\ f_pc' = "returned"
          ELSE f_result' = f_result /\ f_exc' = f_exc /\ f_pc' = "item"
    /\ UNCHANGED << f_sources >>
    /\ UNCHANGED << r_vars, m_vars, l_vars, t_vars, p_vars, d_vars, w_vars >>

\* lines 150-163: the members endpoint, inside try / except Exception: pass
FetchMembers ==
    /\ f_pc = "members"
    /\ f_calls' = Append(f_calls, "members")
    /\ LET out == query(f_sources.members, normalize_committee_code(CommitteeId), "members")
       IN IF out.exc = "" /\ out.members # << >>
          THEN f_result' = out.members /\ f_pc' = "returned"
          ELSE f_result' = f_result /\ f_pc' = "item"
    /\ UNCHANGED << f_sources, f_exc >>
    /\ UNCHANGED << r_vars, m_vars, l_vars, t_vars, p_vars, d_vars, w_vars >>

\* lines 166-174: the item endpoint, unguarded
FetchItem ==
    /\ f_pc = "item"
    /\ f_calls' = Append(f_calls, "item")
    /\ LET out == query(f_sources.item, normalize_committee_code(CommitteeId), "item")
       IN /\ f_result' = out.members
          /\ f_exc' = out.exc
          /\ f_pc' = IF out.exc = "" THEN "returned" ELSE "raised"
    /\ UNCHANGED << f_sources >>
    /\ UNCHANGED << r_vars, m_vars, l_vars, t_vars, p_vars, d_vars, w_vars >>

NextFetch == FetchUnitedStates \/ FetchMembers \/ FetchItem

SpecFetch == InitFetch /\ [][NextFetch]_vars

FetchCalled(source) == \E i \in 1..Len(f_calls) : f_calls[i] = source

\* the primary source returned no members
PrimaryEmpty == fetch_members_from_unitedstates(f_sources.unitedstates, CommitteeId) = << >>

\* the members endpoint raised, or answered with no members
MembersEndpointRaised == http_get(f_sources.members).exc # ""
MembersEndpointEmpty ==
    ~MembersEndpointRaised /\ extract_members(http_get(f_sources.members).data) = << >>

\* the members endpoint answered with members of which one is no object
MembersNotAllObjects ==
    /\ ~MembersEndpointRaised
    /\ LET ms == extract_members(http_get(f_sources.members).data)
       IN \E i \in 1..Len(ms) : ~IsDict(ms[i])

\* the sources are consulted in the fallback order, the members endpoint only after an
\* empty primary source; an exception reaches the caller only from the item endpoint,
\* and a failure of the item endpoint does reach the caller
FallbackOrderAndFailures ==
    /\ \E n \in 0..3 : f_calls = SubSeq(<<"unitedstates", "members", "item">>, 1, n)
    /\ FetchCalled("members") => PrimaryEmpty
    /\ f_pc = "raised" => f_exc # "" /\ f_calls[Len(f_calls)] = "item"
    /\ f_pc = "returned" => f_exc = ""
    /\ (FetchCalled("item") /\ http_get(f_sources.item).exc # "") =>
           f_pc = "raised" /\ f_exc = http_get(f_sources.item).exc

\* C27 as stated: strict fallback order, the item endpoint queried only if the members
\* endpoint raised or returned no members; failures of the first two sources are
\* swallowed, a failure of the item endpoint reaches the caller
C27_StrictFallbackOrder ==
    /\ FallbackOrderAndFailures
    /\ FetchCalled("item") => MembersEndpointRaised \/ MembersEndpointEmpty

\* C27, amended: as stated, but the item endpoint is also queried when the members
\* endpoint returned members of which one is no object
C27_FallbackOrderWithMalformedMembers ==
    /\ FallbackOrderAndFailures
    /\ FetchCalled("item") =>
           MembersEndpointRaised \/ MembersEndpointEmpty \/ MembersNotAllObjects

\* all three sources were consulted because the members endpoint returned a member that
\* is no object, and the item endpoint's members were returned
C27_Witness ==
    /\ f_pc = "returned" /\ f_calls = <<"unitedstates", "members", "item">>
    /\ MembersNotAllObjects /\ f_result # << >>

(***************************************************************************)
(* The components together: a run is a run of one of them                  *)
(***************************************************************************)
Init ==
    \/ InitResolver \/ InitMerge \/ InitLoader \/ InitTranscript \/ InitPipeline
    \/ InitDiarize \/ InitRewrite \/ InitFetch

Next ==
    \/ NextResolver \/ NextMerge \/ NextLoader \/ NextTranscript \/ NextPipeline
    \/ NextDiarize \/ NextRewrite \/ NextFetch

Spec == Init /\ [][Next]_vars

====
